---- MODULE Spec2Model ----
(***************************************************************************)
(* A model of CodeTree (src/src/codetree): the two-stage retrieval         *)
(* protocol of CodeRetriever, the CodeTree facade with its cached index    *)
(* and retriever, and the index document encoder / decoder.                *)
(*                                                                         *)
(* Texts are modelled at the granularity the code inspects them:           *)
(*  - a reasoner response is a sequence of tokens; "{" and "}" are the     *)
(*    only tokens holding a brace, so str.find("{") / str.rfind("}") are   *)
(*    the first / last index of these tokens;                              *)
(*  - a file text is the sequence of its lines (content.split("\n")),      *)
(*    line i of a file being the number i, the empty line being 0; the     *)
(*    empty text "" is <<0>>; the literal "... (N more lines)" is -N.      *)
(***************************************************************************)
EXTENDS Integers, Sequences, FiniteSets, TLC

VARIABLES
    files,            \* the repository on disk: path -> file state
    pc,               \* position of CodeRetriever.query
    response,         \* text returned by the stage-1 chat call
    relevant_files,   \* local `relevant_files` of query (a JSON value)
    idx,              \* position of the `for file_info in relevant_files` loop
    context_parts,    \* local `context_parts` of query
    chat_log,         \* the chat calls made so far: stage, and what came back
    reads,            \* the paths handed to read_text so far
    stage2_request,   \* the context sections sent with the stage-2 call
    outcome,          \* what query returned or raised
    repo,             \* the repository directory, None when it does not exist
    config,           \* the Config the indexer and the facade were given
    clock,            \* datetime.now(), counted in builds
    index_file,       \* <repo>/.codetree/index.json, None when absent
    built,            \* the CodeIndex CodeIndexer.build_index returned
    loaded,           \* what CodeIndexer.load_index read and returned
    _stats,           \* CodeIndexer._stats of the indexer in use
    earlier,          \* the CodeIndex the build before the last returned
    _index,           \* CodeTree._index
    _retriever,       \* CodeTree._retriever
    last,             \* the last facade call and how it ended
    returned          \* what the last facade call returned

queryvars == <<files, pc, response, relevant_files, idx, context_parts,
               chat_log, reads, stage2_request, outcome>>
indexervars == <<repo, config, clock, index_file, built, loaded, _stats,
                 earlier>>
facadevars == <<_index, _retriever, last, returned>>
vars == <<queryvars, indexervars, facadevars>>

----------------------------------------------------------------------------
(* Bounds of the model *)

\* longest relevant_files list the reasoner sends
MaxSel == 6
\* a long file has ContextLineLimit + k lines, k in 0..MaxExtra
MaxExtra == 2
\* a short file has MaxShort lines
MaxShort == 2

\* a repository root holds at most MaxEntries entries of the pool
MaxEntries == 1
\* a long source text has MaxOver matches more than the index keeps
MaxOver == 1
\* a foreign index document lacks at most MaxDrop keys
MaxDrop == 1
\* builds per run of the facade
MaxBuilds == 2

(* Program constants *)

\* retrieve(query, max_files=5)
max_files == 5
\* get_file_content: `if len(lines) > 200`, `lines[:200]`
ContextLineLimit == 200

\* IndexConfig.max_file_size, IndexConfig.max_files
max_file_size == 100000
IndexConfig_max_files == 10000
\* _index_file: imports[:20], functions[:50], classes[:20], variables[:10]
MaxImports == 20
MaxFunctions == 50
MaxClasses == 20
MaxVariables == 10
\* tree(max_depth=3), get_compact_tree(max_depth=3)
DefaultMaxDepth == 3
\* get_compact_tree: node.functions[:5], node.classes[:5]
CompactLimit == 5

NoFilesMessage ==
    "I couldn't identify any relevant files for your question. Please try rephrasing or being more specific."
UnreadableMessage ==
    "I found relevant files but couldn't read their contents."

----------------------------------------------------------------------------
(* Names.  A file or directory name, a pattern and a symbol are sequences  *)
(* of characters, so that lower(), startswith, suffix and glob matching    *)
(* are computed as the code computes them.  A relative path is the         *)
(* sequence of its components (str(path) joins them with "/").             *)

UpperChars == <<"A", "B", "C", "D", "E", "F", "G", "H", "I", "J", "K", "L", "M",
                "N", "O", "P", "Q", "R", "S", "T", "U", "V", "W", "X", "Y", "Z">>
LowerChars == <<"a", "b", "c", "d", "e", "f", "g", "h", "i", "j", "k", "l", "m",
                "n", "o", "p", "q", "r", "s", "t", "u", "v", "w", "x", "y", "z">>
Digits == <<"0", "1", "2", "3", "4", "5", "6", "7", "8", "9">>
\* the characters in code point order: "-" "." digits upper "_" lower
CodeOrder == <<"-", ".">> \o Digits \o UpperChars \o <<"_">> \o LowerChars

IndexIn(seq, c) == CHOOSE k \in 1..Len(seq) : seq[k] = c
IsIn(seq, c) == \E k \in 1..Len(seq) : seq[k] = c

\* ord(c), up to an order-preserving renumbering
CharCode(c) == IndexIn(CodeOrder, c)
\* str.lower()
LowerChar(c) == IF IsIn(UpperChars, c) THEN LowerChars[IndexIn(UpperChars, c)] ELSE c
Lower(name) == [k \in 1..Len(name) |-> LowerChar(name[k])]

\* a < b for str: b goes on where a ends, or holds the greater character
\* where the two first differ
StrLess(a, b) ==
    \E k \in 1..Len(b) :
        /\ \A j \in 1..(k - 1) : j <= Len(a) /\ a[j] = b[j]
        /\ k > Len(a) \/ CharCode(a[k]) < CharCode(b[k])

\* name.startswith(prefix)
StartsWith(name, prefix) ==
    Len(prefix) <= Len(name) /\ SubSeq(name, 1, Len(prefix)) = prefix

\* sub in text, for str
Contains(text, sub) ==
    \E k \in 0..(Len(text) - Len(sub)) : SubSeq(text, k + 1, k + Len(sub)) = sub

\* PurePath.suffix: the text from the last ".", unless that "." is the first
\* or the last character of the name
Suffix(name) ==
    LET dots == {k \in 1..Len(name) : name[k] = "."} IN
    IF dots = {} THEN <<>>
    ELSE LET i == CHOOSE k \in dots : \A j \in dots : j <= k IN
         IF 1 < i /\ i < Len(name) THEN SubSeq(name, i, Len(name)) ELSE <<>>

\* fnmatch of one path component: "*" any run of characters, "?" any one
RECURSIVE GlobMatch(_, _)
GlobMatch(pattern, name) ==
    IF pattern = <<>> THEN name = <<>>
    ELSE IF pattern[1] = "*" THEN
        \E k \in 0..Len(name) :
            GlobMatch(Tail(pattern), SubSeq(name, k + 1, Len(name)))
    ELSE IF name = <<>> THEN FALSE
    ELSE (pattern[1] = "?" \/ pattern[1] = name[1])
            /\ GlobMatch(Tail(pattern), Tail(name))

----------------------------------------------------------------------------
(* CodeParser.detect_language and the configuration *)

\* LANGUAGE_EXTENSIONS, in dict order
LANGUAGE_EXTENSIONS ==
    <<[lang |-> "python", extensions |-> {<<".", "p", "y">>, <<".", "p", "y", "i">>}],
       [lang |-> "javascript", extensions |-> {<<".", "j", "s">>, <<".", "j", "s", "x">>, <<".", "m", "j", "s">>}],
       [lang |-> "typescript", extensions |-> {<<".", "t", "s">>, <<".", "t", "s", "x">>}],
       [lang |-> "go", extensions |-> {<<".", "g", "o">>}],
       [lang |-> "rust", extensions |-> {<<".", "r", "s">>}],
       [lang |-> "java", extensions |-> {<<".", "j", "a", "v", "a">>}],
       [lang |-> "c", extensions |-> {<<".", "c">>, <<".", "h">>}],
       [lang |-> "cpp", extensions |-> {<<".", "c", "p", "p">>, <<".", "h", "p", "p">>, <<".", "c", "c">>, <<".", "c", "x", "x">>}]>>

\* Optional[T]: <<>> is None, <<x>> is the value x
Nothing == <<>>
Just(x) == <<x>>

\* detect_language: the first language whose extensions hold suffix.lower()
detect_language(name) ==
    LET suffix == Lower(Suffix(name))
        hits == {k \in 1..Len(LANGUAGE_EXTENSIONS) :
                    suffix \in LANGUAGE_EXTENSIONS[k].extensions}
    IN IF hits = {} THEN Nothing
       ELSE Just(LANGUAGE_EXTENSIONS[CHOOSE k \in hits : \A j \in hits : k <= j].lang)

\* IndexConfig and LLMConfig defaults
DefaultLanguages == {"python", "javascript", "typescript", "go", "rust", "java"}
DefaultExclude ==
    <<<<"n", "o", "d", "e", "_", "m", "o", "d", "u", "l", "e", "s">>,
       <<"_", "_", "p", "y", "c", "a", "c", "h", "e", "_", "_">>,
       <<".", "g", "i", "t">>,
       <<".", "v", "e", "n", "v">>,
       <<"v", "e", "n", "v">>,
       <<"d", "i", "s", "t">>,
       <<"b", "u", "i", "l", "d">>,
       <<".", "e", "g", "g", "-", "i", "n", "f", "o">>,
       <<".", "t", "o", "x">>,
       <<".", "p", "y", "t", "e", "s", "t", "_", "c", "a", "c", "h", "e">>>>

DefaultConfig ==
    [languages |-> DefaultLanguages, exclude |-> DefaultExclude,
     max_file_size |-> max_file_size, max_files |-> IndexConfig_max_files,
     provider |-> "openai"]

\* a .codetree.yaml that narrows the languages, adds a glob and sets
\* index.max_files to 2
CustomConfig ==
    [languages |-> {"python", "go", "c"},
     exclude |-> <<<<"g", "e", "n">>, <<"*", ".", "j", "s">>>>,
     max_file_size |-> max_file_size, max_files |-> 2,
     provider |-> "openai"]

Configs == {DefaultConfig, CustomConfig}

----------------------------------------------------------------------------
(* JSON values, as json.loads builds them *)

JNull == [t |-> "null", s |-> "", v |-> <<>>, m |-> <<>>]
JStr(x) == [t |-> "str", s |-> x, v |-> <<>>, m |-> <<>>]
JList(items) == [t |-> "list", s |-> "", v |-> items, m |-> <<>>]
\* members: the sequence of <<key, value>> pairs in document order
JObj(members) == [t |-> "obj", s |-> "", v |-> <<>>, m |-> members]

PathTokens == {"a.py", "big.py", "gone.py", "empty.py", "bin.py"}
\* the tokens that are JSON string literals
\* the further paths the reasoner names to a facade
OtherPathTokens == {".env.py", "../s.py", "/etc/passwd"}
StringTokens ==
    {"relevant_files", "reasoning", "path", "focus", "relevance", "why", "foo", ""}
        \cup PathTokens \cup OtherPathTokens
\* every other token: punctuation, null, and "x", a word of prose
Tokens == StringTokens \cup {"{", "}", "[", "]", ",", ":", "null", "x"}

ParseFail == [ok |-> FALSE, val |-> JNull, pos |-> 0]
ParseOk(val, pos) == [ok |-> TRUE, val |-> val, pos |-> pos]

RECURSIVE ParseValue(_, _)
RECURSIVE ParseItems(_, _, _)
RECURSIVE ParseMembers(_, _, _)

\* one JSON value starting at toks[i]; pos is the index after it
ParseValue(toks, i) ==
    IF i > Len(toks) THEN ParseFail
    ELSE IF toks[i] = "null" THEN ParseOk(JNull, i + 1)
    ELSE IF toks[i] \in StringTokens THEN ParseOk(JStr(toks[i]), i + 1)
    ELSE IF toks[i] = "[" THEN
        IF i + 1 <= Len(toks) /\ toks[i + 1] = "]"
        THEN ParseOk(JList(<<>>), i + 2)
        ELSE ParseItems(toks, i + 1, <<>>)
    ELSE IF toks[i] = "{" THEN
        IF i + 1 <= Len(toks) /\ toks[i + 1] = "}"
        THEN ParseOk(JObj(<<>>), i + 2)
        ELSE ParseMembers(toks, i + 1, <<>>)
    ELSE ParseFail

\* the items of a list whose "[" has been read, up to its "]"
ParseItems(toks, i, acc) ==
    LET r == ParseValue(toks, i) IN
    IF ~r.ok \/ r.pos > Len(toks) THEN ParseFail
    ELSE IF toks[r.pos] = "," THEN ParseItems(toks, r.pos + 1, Append(acc, r.val))
    ELSE IF toks[r.pos] = "]" THEN ParseOk(JList(Append(acc, r.val)), r.pos + 1)
    ELSE ParseFail

\* the members of an object whose "{" has been read, up to its "}"
ParseMembers(toks, i, acc) ==
    IF i + 1 > Len(toks) THEN ParseFail
    ELSE IF toks[i] \notin StringTokens \/ toks[i + 1] # ":" THEN ParseFail
    ELSE LET r == ParseValue(toks, i + 2) IN
         IF ~r.ok \/ r.pos > Len(toks) THEN ParseFail
         ELSE IF toks[r.pos] = ","
              THEN ParseMembers(toks, r.pos + 1, Append(acc, <<toks[i], r.val>>))
         ELSE IF toks[r.pos] = "}"
              THEN ParseOk(JObj(Append(acc, <<toks[i], r.val>>)), r.pos + 1)
         ELSE ParseFail

\* json.loads(text): one value and nothing after it, else JSONDecodeError
json_loads(toks) ==
    LET r == ParseValue(toks, 1) IN
    IF r.ok /\ r.pos = Len(toks) + 1 THEN [ok |-> TRUE, val |-> r.val]
    ELSE [ok |-> FALSE, val |-> JNull]

\* dict.get(key, default) on a parsed object: the last member named key wins
DictGet(obj, key, default) ==
    LET hits == {k \in 1..Len(obj.m) : obj.m[k][1] = key} IN
    IF hits = {} THEN default
    ELSE obj.m[CHOOSE k \in hits : \A j \in hits : j <= k][2]

\* Python truth value of a JSON value (`if not focus`)
Truthy(val) ==
    CASE val.t = "null" -> FALSE
      [] val.t = "str" -> val.s # ""
      [] val.t = "list" -> val.v # <<>>
      [] val.t = "obj" -> val.m # <<>>

----------------------------------------------------------------------------
(* CodeRetriever.retrieve: the stage-1 response parser *)

\* str.find("{") + 1: index of the first "{", 0 when there is none
FindOpen(text) ==
    LET hits == {k \in 1..Len(text) : text[k] = "{"} IN
    IF hits = {} THEN 0 ELSE CHOOSE k \in hits : \A j \in hits : k <= j

\* str.rfind("}") + 1: index of the last "}", 0 when there is none
RFindClose(text) ==
    LET hits == {k \in 1..Len(text) : text[k] = "}"} IN
    IF hits = {} THEN 0 ELSE CHOOSE k \in hits : \A j \in hits : j <= k

\* json_end = response.rfind("}"), the "+ 1" forgotten
JsonSpan_NoPlusOne(text) ==
    LET json_start == FindOpen(text) - 1
        json_end == RFindClose(text) - 1
    IN IF json_start >= 0 /\ json_end > json_start
       THEN [found |-> TRUE, span |-> SubSeq(text, json_start + 1, json_end)]
       ELSE [found |-> FALSE, span |-> <<>>]

\* response[json_start:json_end], guarded by
\* `json_start >= 0 and json_end > json_start`
JsonSpan(text) ==
    LET json_start == FindOpen(text) - 1
        json_end == RFindClose(text)
    IN IF json_start >= 0 /\ json_end > json_start
       THEN [found |-> TRUE, span |-> SubSeq(text, json_start + 1, json_end)]
       ELSE [found |-> FALSE, span |-> <<>>]

\* the [:max_files] cap forgotten
Slice_Uncapped(val, n) == val

\* value[:n] for the values a slice is defined on
Slice(val, n) ==
    IF val.t = "list"
    THEN JList(SubSeq(val.v, 1, IF Len(val.v) < n THEN Len(val.v) ELSE n))
    ELSE val

\* result["relevant_files"] in place of result.get("relevant_files", [])
Retrieve_KeyRequired(text) ==
    LET sp == JsonSpan(text)
        result == json_loads(sp.span)
        rf == DictGet(result.val, "relevant_files", JNull)
    IN IF ~sp.found \/ ~result.ok THEN [raised |-> FALSE, val |-> JList(<<>>)]
       ELSE IF rf.t \in {"null", "obj"} THEN [raised |-> TRUE, val |-> JNull]
       ELSE [raised |-> FALSE, val |-> Slice(rf, max_files)]

\* retrieve(query): the selection, or the exception that escapes it.
\* A str slices to a str (kept whole here: only its emptiness is read);
\* None and dict do not support slicing.
Retrieve(text) ==
    LET sp == JsonSpan(text)
        result == json_loads(sp.span)
        rf == DictGet(result.val, "relevant_files", JList(<<>>))
    IN IF ~sp.found \/ ~result.ok THEN [raised |-> FALSE, val |-> JList(<<>>)]
       ELSE IF rf.t \in {"null", "obj"} THEN [raised |-> TRUE, val |-> JNull]
       ELSE [raised |-> FALSE, val |-> Slice(rf, max_files)]

----------------------------------------------------------------------------
(* CodeRetriever.get_file_content *)

Lines(n) == [i \in 1..n |-> i]
EmptyText == <<0>>

Missing == [kind |-> "missing", lines |-> <<>>]
Directory == [kind |-> "dir", lines |-> <<>>]
\* a file whose bytes are not UTF-8
Undecodable == [kind |-> "binary", lines |-> <<>>]
TextFile(lines) == [kind |-> "text", lines |-> lines]

FileAt(fs, path) == IF path \in DOMAIN fs THEN fs[path] ELSE Missing

None == [some |-> FALSE, text |-> <<>>]
Some(text) == [some |-> TRUE, text |-> text]

\* "\n".join(lines[:200]) + f"\n\n... ({len(lines) - 200} more lines)"
Truncate(lines) ==
    SubSeq(lines, 1, ContextLineLimit) \o <<0, -(Len(lines) - ContextLineLimit)>>

\* get_file_content(file_path, focus); read_text of a directory raises
\* IsADirectoryError, an IOError
GetFileContent(fs, file_path, focus) ==
    LET f == FileAt(fs, file_path) IN
    IF f.kind = "missing" THEN None
    ELSE IF f.kind \in {"binary", "dir"} THEN None
    ELSE IF ~Truthy(focus) THEN
        IF Len(f.lines) > ContextLineLimit THEN Some(Truncate(f.lines))
        ELSE Some(f.lines)
    ELSE Some(f.lines)

\* whether get_file_content gets as far as read_text
ReadsFile(fs, file_path) == FileAt(fs, file_path).kind # "missing"

----------------------------------------------------------------------------
(* The reasoner: the texts chat may return *)

FocusAbsent == <<>>
FocusEmpty == <<",", "focus", ":", "[", "]">>
FocusGiven == <<",", "focus", ":", "[", "foo", "]">>
\* {"path": p, "focus": [...]}
ObjEntry(p, focus) == <<"{", "path", ":", p>> \o focus \o <<"}">>
\* an entry without a path key, an entry whose path is null, an entry that
\* is a bare string
NoPathEntry == <<"{", "relevance", ":", "why", "}">>
NullPathEntry == <<"{", "path", ":", "null", "}">>
StrEntry == <<"a.py">>

EntryOrder ==
    << ObjEntry("a.py", FocusAbsent),
       ObjEntry("big.py", FocusGiven),
       ObjEntry("gone.py", FocusAbsent),
       ObjEntry("big.py", FocusAbsent),
       ObjEntry("empty.py", FocusGiven),
       ObjEntry("a.py", FocusGiven),
       ObjEntry("bin.py", FocusAbsent),
       NoPathEntry,
       ObjEntry("big.py", FocusEmpty),
       ObjEntry("gone.py", FocusGiven),
       StrEntry,
       ObjEntry("empty.py", FocusAbsent),
       NullPathEntry,
       ObjEntry("bin.py", FocusGiven) >>

EntryChoices == {EntryOrder[k] : k \in 1..Len(EntryOrder)}

\* lists of up to two entries, and longer ones that walk EntryOrder from
\* any offset (stride 1) or repeat one entry (stride 0)
EntryLists ==
    {<<>>} \cup {<<e>> : e \in EntryChoices}
        \cup {<<e1, e2>> : e1 \in EntryChoices, e2 \in EntryChoices}
        \cup {[i \in 1..n |->
                  EntryOrder[((off + (i - 1) * stride) % Len(EntryOrder)) + 1]] :
              n \in 3..MaxSel, off \in 0..(Len(EntryOrder) - 1), stride \in {0, 1}}

RECURSIVE JoinComma(_)
JoinComma(list) ==
    IF list = <<>> THEN <<>>
    ELSE IF Len(list) = 1 THEN list[1]
    ELSE list[1] \o <<",">> \o JoinComma(Tail(list))

\* {"reasoning": "why", "relevant_files": [ ... ]}
SelectionObject(list) ==
    <<"{", "reasoning", ":", "why", ",", "relevant_files", ":", "[">>
        \o JoinComma(list) \o <<"]", "}">>

OtherBodies ==
    { <<>>,                                              \* no object at all
      <<"{", "}">>,
      <<"{", "reasoning", ":", "why", "}">>,             \* no relevant_files
      <<"{", "relevant_files", ":", "null", "}">>,
      <<"{", "relevant_files", ":", "a.py", "}">>,       \* a str, not a list
      <<"{", "relevant_files", ":", "", "}">>,
      <<"{", "relevant_files", ":", "{", "}", "}">>,
      <<"{", "relevant_files", ":", "[">>,               \* cut short
      <<"{", "relevant_files", ":", "[", "]", ",",
        "relevant_files", ":", "[", "{", "path", ":", "a.py", "}", "]", "}">> }

\* prose around the object, with or without braces of its own
Prefixes == {<<>>, <<"x">>, <<"x", "{", "x">>, <<"}", "x">>}
Suffixes == {<<>>, <<"x">>, <<"x", "}">>, <<"{", "}">>, <<"{">>}

Responses ==
    {pre \o body \o post :
        pre \in Prefixes, post \in Suffixes,
        body \in OtherBodies \cup {SelectionObject(l) : l \in EntryLists}}

Answers == {"answer A", "answer B"}

----------------------------------------------------------------------------
(* CodeRetriever.query, step by step *)

\* one chat call: its stage, whether it returned, and the text it returned
ChatReturned(stage, text) == [stage |-> stage, returned |-> TRUE, text |-> text]
ChatFailed(stage) == [stage |-> stage, returned |-> FALSE, text |-> <<>>]

NoOutcome == [kind |-> "none", text |-> ""]
Returned(text) == [kind |-> "returned", text |-> text]
Raised(error) == [kind |-> "raised", text |-> error]

\* a repository whose long file has ContextLineLimit + k lines; gone.py is
\* not on disk, "" is the repository root itself
Repo(k) ==
    [p \in (PathTokens \ {"gone.py"}) \cup {""} |->
        CASE p = "" -> Directory
          [] p = "a.py" -> TextFile(Lines(MaxShort))
          [] p = "big.py" -> TextFile(Lines(ContextLineLimit + k))
          [] p = "empty.py" -> TextFile(EmptyText)
          [] p = "bin.py" -> Undecodable]

\* no query under way
QueryIdle ==
    /\ pc = "idle"
    /\ response = <<>>
    /\ relevant_files = JList(<<>>)
    /\ idx = 0
    /\ context_parts = <<>>
    /\ chat_log = <<>>
    /\ reads = <<>>
    /\ stage2_request = <<>>
    /\ outcome = NoOutcome

\* no facade call made yet
NoCall ==
    [op |-> "none", error |-> "", constructed |-> FALSE, chats |-> 0,
     reads |-> 0, sent |-> <<>>, save |-> FALSE]

\* the indexer and the facade at rest
NoIndexer ==
    /\ repo = Nothing
    /\ config = DefaultConfig
    /\ clock = 0
    /\ index_file = Nothing
    /\ built = Nothing
    /\ loaded = Nothing
    /\ _stats = [total_files |-> 0, total_lines |-> 0, languages |-> <<>>]
    /\ earlier = Nothing
NoFacade ==
    /\ _index = Nothing
    /\ _retriever = Nothing
    /\ last = NoCall
    /\ returned = <<>>

Init ==
    /\ files \in {Repo(k) : k \in 0..MaxExtra}
    /\ QueryIdle
    /\ NoIndexer
    /\ NoFacade

\* retrieve, up to and including self.llm.chat(messages): the call returns
\* a text or fails in the provider's transport
Stage1Chat ==
    /\ pc = "idle"
    /\ \/ /\ response' \in Responses
          /\ chat_log' = Append(chat_log, ChatReturned(1, response'))
          /\ pc' = "parse"
          /\ outcome' = outcome
       \/ /\ response' = response
          /\ chat_log' = Append(chat_log, ChatFailed(1))
          /\ pc' = "done"
          /\ outcome' = Raised("chat failed")
    /\ UNCHANGED <<files, relevant_files, idx, context_parts, reads, stage2_request>>
    /\ UNCHANGED <<indexervars, facadevars>>

\* the rest of retrieve, and `if not relevant_files` in query
ParseSelection ==
    /\ pc = "parse"
    /\ LET r == Retrieve(response) IN
       IF r.raised
       THEN /\ relevant_files' = relevant_files
            /\ pc' = "done"
            /\ outcome' = Raised("TypeError")
       ELSE /\ relevant_files' = r.val
            /\ IF ~Truthy(r.val)
               THEN /\ pc' = "done"
                    /\ outcome' = Returned(NoFilesMessage)
               ELSE /\ pc' = "assemble"
                    /\ outcome' = outcome
    /\ idx' = 1
    /\ UNCHANGED <<files, response, context_parts, chat_log, reads, stage2_request>>
    /\ UNCHANGED <<indexervars, facadevars>>

\* f"## File: {path}\n\n```\n{content}\n```"
Section(path, content) == [path |-> path, text |-> content]

\* one turn of the loop over relevant_files. Iterating a str yields str
\* items; a str, a list or null has no .get; Path / x needs x to be a str.
ReadNext ==
    /\ pc = "assemble"
    /\ relevant_files.t = "str" \/ idx <= Len(relevant_files.v)
    /\ IF relevant_files.t = "str" \/ relevant_files.v[idx].t # "obj"
       THEN /\ pc' = "done"
            /\ outcome' = Raised("AttributeError")
            /\ UNCHANGED <<context_parts, reads, idx>>
       ELSE LET file_info == relevant_files.v[idx]
                path == DictGet(file_info, "path", JStr(""))
                focus == DictGet(file_info, "focus", JList(<<>>))
                content == GetFileContent(files, path.s, focus)
            IN IF path.t # "str"
               THEN /\ pc' = "done"
                    /\ outcome' = Raised("TypeError")
                    /\ UNCHANGED <<context_parts, reads, idx>>
               ELSE /\ reads' = IF ReadsFile(files, path.s)
                                THEN Append(reads, path.s) ELSE reads
                    /\ context_parts' =
                         IF content.some /\ content.text # EmptyText
                         THEN Append(context_parts, Section(path.s, content.text))
                         ELSE context_parts
                    /\ idx' = idx + 1
                    /\ UNCHANGED <<pc, outcome>>
    /\ UNCHANGED <<files, response, relevant_files, chat_log, stage2_request>>
    /\ UNCHANGED <<indexervars, facadevars>>

\* the `if not context_parts` test dropped: stage 2 is always asked
FinishAssembly_AlwaysAsks ==
    /\ pc = "assemble"
    /\ relevant_files.t = "list" /\ idx > Len(relevant_files.v)
    /\ pc' = "stage2"
    /\ outcome' = outcome
    /\ UNCHANGED <<files, response, relevant_files, idx, context_parts,
                   chat_log, reads, stage2_request>>
    /\ UNCHANGED <<indexervars, facadevars>>

\* the loop left one entry early
FinishAssembly_BeforeLastRead ==
    /\ pc = "assemble"
    /\ relevant_files.t = "list" /\ idx >= Len(relevant_files.v)
    /\ IF context_parts = <<>>
       THEN /\ pc' = "done"
            /\ outcome' = Returned(UnreadableMessage)
       ELSE /\ pc' = "stage2"
            /\ outcome' = outcome
    /\ UNCHANGED <<files, response, relevant_files, idx, context_parts,
                   chat_log, reads, stage2_request>>
    /\ UNCHANGED <<indexervars, facadevars>>

\* `if not context_parts` after the loop
FinishAssembly ==
    /\ pc = "assemble"
    /\ relevant_files.t = "list" /\ idx > Len(relevant_files.v)
    /\ IF context_parts = <<>>
       THEN /\ pc' = "done"
            /\ outcome' = Returned(UnreadableMessage)
       ELSE /\ pc' = "stage2"
            /\ outcome' = outcome
    /\ UNCHANGED <<files, response, relevant_files, idx, context_parts,
                   chat_log, reads, stage2_request>>
    /\ UNCHANGED <<indexervars, facadevars>>

\* return self.llm.chat(messages)
Stage2Chat ==
    /\ pc = "stage2"
    /\ stage2_request' = context_parts
    /\ pc' = "done"
    /\ \/ \E answer \in Answers :
            /\ chat_log' = Append(chat_log, ChatReturned(2, answer))
            /\ outcome' = Returned(answer)
       \/ /\ chat_log' = Append(chat_log, ChatFailed(2))
          /\ outcome' = Raised("chat failed")
    /\ UNCHANGED <<files, response, relevant_files, idx, context_parts, reads>>
    /\ UNCHANGED <<indexervars, facadevars>>

\* the caller asks the same retriever again
NextQuery ==
    /\ pc = "done"
    /\ pc' = "idle"
    /\ response' = <<>>
    /\ relevant_files' = JList(<<>>)
    /\ idx' = 0
    /\ context_parts' = <<>>
    /\ chat_log' = <<>>
    /\ reads' = <<>>
    /\ stage2_request' = <<>>
    /\ outcome' = NoOutcome
    /\ UNCHANGED files
    /\ UNCHANGED <<indexervars, facadevars>>

Next ==
    \/ Stage1Chat
    \/ ParseSelection
    \/ ReadNext
    \/ FinishAssembly
    \/ Stage2Chat
    \/ NextQuery

Spec == Init /\ [][Next]_vars

----------------------------------------------------------------------------
(* CodeParser.parse_file.  A source text is represented by what the        *)
(* language's patterns match in it: the import statements, the function    *)
(* and class headers with the line each match starts at, the upper-case    *)
(* assignment targets, and the number of lines.  The matches of a kind     *)
(* are listed in the order they stand in the text.                         *)

FuncMatch(name, params, is_async, decorators, doc, line) ==
    [name |-> name, params |-> params, is_async |-> is_async,
     decorators |-> decorators, doc |-> doc, line |-> line, arrow |-> FALSE]
\* a match of the second JavaScript pattern: `const name = (...) =>`
ArrowMatch(name, line) ==
    [FuncMatch(name, "", FALSE, <<>>, Nothing, line) EXCEPT !.arrow = TRUE]
ClassMatch(name, base, decorators, doc, line) ==
    [name |-> name, base |-> base, decorators |-> decorators, doc |-> doc,
     line |-> line]
Matches(lines, imports, funcs, classes, variables) ==
    [lines |-> lines, imports |-> imports, funcs |-> funcs, classes |-> classes,
     variables |-> variables]

CodeEntity(name, type, start_line, docstring, signature, decorators) ==
    [name |-> name, type |-> type, start_line |-> start_line,
     end_line |-> start_line, docstring |-> docstring, signature |-> signature,
     decorators |-> decorators]

\* a signature is the f-string that builds it and the texts it interpolates
Signature(format, name, arg) == [format |-> format, name |-> name, arg |-> arg]

FileInfo(language, imports, functions, classes, variables, line_count) ==
    [language |-> language, imports |-> imports, functions |-> functions,
     classes |-> classes, variables |-> variables, line_count |-> line_count]

_parse_python(m) ==
    FileInfo("python", m.imports,
        [k \in 1..Len(m.funcs) |->
            CodeEntity(m.funcs[k].name, "function", m.funcs[k].line, m.funcs[k].doc,
                Just(Signature(IF m.funcs[k].is_async
                                   THEN "async def {name}({params})"
                                   ELSE "def {name}({params})",
                               m.funcs[k].name, m.funcs[k].params)),
                m.funcs[k].decorators)],
        [k \in 1..Len(m.classes) |->
            CodeEntity(m.classes[k].name, "class", m.classes[k].line, m.classes[k].doc,
                Just(IF m.classes[k].base = Nothing
                     THEN Signature("class {name}", m.classes[k].name, "")
                     ELSE Signature("class {name}({bases})", m.classes[k].name,
                                    m.classes[k].base[1])),
                m.classes[k].decorators)],
        m.variables, m.lines)

\* `for pattern in func_patterns: for match in pattern.finditer(content)`:
\* every function declaration, then every arrow function
PatternByPattern(funcs) ==
    SelectSeq(funcs, LAMBDA f : ~f.arrow) \o SelectSeq(funcs, LAMBDA f : f.arrow)

_parse_javascript(m, language) ==
    FileInfo(language, m.imports,
        LET found == PatternByPattern(m.funcs) IN
        [k \in 1..Len(found) |->
            CodeEntity(found[k].name, "function", found[k].line, Nothing,
                       Nothing, <<>>)],
        [k \in 1..Len(m.classes) |->
            CodeEntity(m.classes[k].name, "class", m.classes[k].line, Nothing,
                Just(IF m.classes[k].base = Nothing
                     THEN Signature("class {name}", m.classes[k].name, "")
                     ELSE Signature("class {name} extends {extends}",
                                    m.classes[k].name, m.classes[k].base[1])),
                <<>>)],
        <<>>, m.lines)

_parse_go(m) ==
    FileInfo("go", m.imports,
        [k \in 1..Len(m.funcs) |->
            CodeEntity(m.funcs[k].name, "function", m.funcs[k].line, Nothing,
                       Just(Signature("func {name}({params})", m.funcs[k].name,
                                      m.funcs[k].params)), <<>>)],
        <<>>, <<>>, m.lines)

_parse_rust(m) ==
    FileInfo("rust", m.imports,
        [k \in 1..Len(m.funcs) |->
            CodeEntity(m.funcs[k].name, "function", m.funcs[k].line, Nothing,
                       Nothing, <<>>)],
        <<>>, <<>>, m.lines)

JavaKeywords == {<<"i", "f">>, <<"w", "h", "i", "l", "e">>, <<"f", "o", "r">>, <<"s", "w", "i", "t", "c", "h">>, <<"c", "a", "t", "c", "h">>}

_parse_java(m) ==
    FileInfo("java", m.imports,
        LET methods == SelectSeq(m.funcs, LAMBDA f : f.name \notin JavaKeywords) IN
        [k \in 1..Len(methods) |->
            CodeEntity(methods[k].name, "method", methods[k].line, Nothing,
                       Nothing, <<>>)],
        [k \in 1..Len(m.classes) |->
            CodeEntity(m.classes[k].name, "class", m.classes[k].line, Nothing,
                       Nothing, <<>>)],
        <<>>, m.lines)

\* the dispatch of parse_file on the detected language
ParseAs(language, m) ==
    IF language = "python" THEN _parse_python(m)
    ELSE IF language \in {"javascript", "typescript"} THEN _parse_javascript(m, language)
    ELSE IF language = "go" THEN _parse_go(m)
    ELSE IF language = "rust" THEN _parse_rust(m)
    ELSE IF language = "java" THEN _parse_java(m)
    ELSE FileInfo(language, <<>>, <<>>, <<>>, <<>>, m.lines)

\* parse_file(file_path): None for an unknown extension, or when read_text
\* raises IOError (the file cannot be read) or UnicodeDecodeError
parse_file(file) ==
    IF detect_language(file.name) = Nothing THEN Nothing
    ELSE IF ~file.readable \/ ~file.decodable THEN Nothing
    ELSE Just(ParseAs(detect_language(file.name)[1], file.matches))

----------------------------------------------------------------------------
(* The repository on disk *)

NoMatches == Matches(1, <<>>, <<>>, <<>>, <<>>)

\* a regular file: its directory-order position, name, size in bytes,
\* whether its bytes are UTF-8, and what the patterns match in it
File(ino, name, size, decodable, matches) ==
    [kind |-> "file", ino |-> ino, name |-> name, size |-> size,
     decodable |-> decodable, matches |-> matches, readable |-> TRUE,
     entries |-> {}]
\* a regular file that read_text cannot open (IOError)
Unreadable(ino, name, size) ==
    [File(ino, name, size, TRUE, NoMatches) EXCEPT !.readable = FALSE]
\* a directory; iterdir raises PermissionError when it is not readable
Dir(ino, name, readable, entries) ==
    [kind |-> "dir", ino |-> ino, name |-> name, size |-> 0, decodable |-> FALSE,
     matches |-> NoMatches, readable |-> readable, entries |-> entries]
\* neither a file nor a directory (a socket, a dangling link)
Special(ino, name) ==
    [kind |-> "other", ino |-> ino, name |-> name, size |-> 0,
     decodable |-> FALSE, matches |-> NoMatches, readable |-> TRUE,
     entries |-> {}]

\* "def foo(): pass"
PyHello ==
    Matches(1, <<>>, <<FuncMatch(<<"f", "o", "o">>, "", FALSE, <<>>, Nothing, 1)>>, <<>>, <<>>)
PyRich ==
    Matches(12,
        <<<<"i", "m", "p", "o", "r", "t", " ", "o", "s">>, <<"f", "r", "o", "m", " ", "F", "o", "o", " ", "i", "m", "p", "o", "r", "t", " ", "b", "a", "r">>>>,
        <<FuncMatch(<<"h", "e", "l", "l", "o">>, "", FALSE, <<>>, Just("Say hello."), 3),
          FuncMatch(<<"f", "e", "t", "c", "h", "_", "d", "a", "t", "a">>, "url: str", TRUE, <<"@cache">>, Nothing, 6)>>,
        <<ClassMatch(<<"m", "y", "F", "o", "o", "B", "a", "r">>, Just("Base"), <<"@dataclass">>, Just("A class."), 9),
          ClassMatch(<<"P", "l", "a", "i", "n">>, Nothing, <<>>, Nothing, 12)>>,
        <<<<"M", "A", "X", "_", "S", "I", "Z", "E">>>>)
\* a text with one more import, function, class and variable than the
\* index keeps, plus `extra` more
TwoDigits(k) == <<Digits[(k \div 10) + 1], Digits[(k % 10) + 1]>>
PyMany(extra) ==
    Matches(MaxFunctions + 2 + extra,
        [k \in 1..(MaxImports + 1 + extra) |-> <<"i", "m", "p", "o", "r", "t", " ", "o", "s">>],
        [k \in 1..(MaxFunctions + 1 + extra) |->
            FuncMatch(<<"f">> \o TwoDigits(k), "", FALSE, <<>>, Nothing, k)],
        [k \in 1..(MaxClasses + 1 + extra) |->
            ClassMatch(<<"C">> \o TwoDigits(k), Nothing, <<>>, Nothing, k)],
        [k \in 1..(MaxVariables + 1 + extra) |-> <<"V">> \o TwoDigits(k)])
\* `const onFoo = () =>` on line 2, `function main()` on line 4,
\* `function render()` on line 5
JsApp ==
    Matches(9, <<<<"i", "m", "p", "o", "r", "t", " ", "x", " ", "f", "r", "o", "m", " ", "'", "y", "'", ";">>>>,
        <<ArrowMatch(<<"o", "n", "F", "o", "o">>, 2),
          FuncMatch(<<"m", "a", "i", "n">>, "", FALSE, <<>>, Nothing, 4),
          FuncMatch(<<"r", "e", "n", "d", "e", "r">>, "", FALSE, <<>>, Nothing, 5)>>,
        <<ClassMatch(<<"A", "p", "p">>, Just("Base"), <<>>, Nothing, 3)>>, <<>>)
GoMain ==
    Matches(7, <<<<"f", "m", "t">>>>,
        <<FuncMatch(<<"m", "a", "i", "n">>, "", FALSE, <<>>, Nothing, 3)>>, <<>>, <<>>)
JavaApp ==
    Matches(8, <<<<"i", "m", "p", "o", "r", "t", " ", "j", "a", "v", "a", ".", "u", "t", "i", "l", ".", "L", "i", "s", "t", ";">>>>,
        <<FuncMatch(<<"r", "u", "n">>, "", FALSE, <<>>, Nothing, 2),
          FuncMatch(<<"i", "f">>, "", FALSE, <<>>, Nothing, 3)>>,
        <<ClassMatch(<<"A", "p", "p">>, Nothing, <<>>, Nothing, 1)>>, <<>>)

\* the entries a repository root may hold
Pool ==
    { File(1, <<"a", ".", "p", "y">>, 15, TRUE, PyHello),
      File(2, <<"B", ".", "j", "s">>, 40, TRUE, JsApp),
      File(3, <<"l", "i", "b", ".", "p", "y">>, 90, TRUE, PyRich),
      File(4, <<"m", "a", "n", "y", ".", "p", "y">>, max_file_size, TRUE, PyMany(MaxOver)),
      File(5, <<"M", "a", "i", "n", ".", "g", "o">>, 30, TRUE, GoMain),
      File(6, <<"m", "a", "i", "n", ".", "g", "o">>, 30, TRUE, NoMatches),
      File(7, <<"b", "i", "g", ".", "p", "y">>, max_file_size + 1, TRUE, PyHello),
      File(8, <<"b", "i", "n", ".", "p", "y">>, 20, FALSE, NoMatches),
      File(9, <<"x", ".", "c">>, 20, TRUE, NoMatches),
      File(10, <<"n", "o", "t", "e", "s", ".", "m", "d">>, 20, TRUE, NoMatches),
      File(11, <<".", "e", "n", "v", ".", "p", "y">>, 20, TRUE, PyHello),
      File(12, <<"d", "i", "s", "t", "u", "t", "i", "l", "s", ".", "p", "y">>, 20, TRUE, PyHello),
      Dir(13, <<"s", "r", "c">>, TRUE,
          { File(14, <<"A", "p", "p", ".", "j", "a", "v", "a">>, 50, TRUE, JavaApp),
            File(15, <<"a", "p", "p", ".", "t", "s">>, 50, TRUE, JsApp),
            File(17, <<"u", ".", "r", "s">>, 10, TRUE, GoMain),
            Dir(18, <<"v", "o", "i", "d">>, TRUE, {}) }),
      Dir(19, <<"n", "o", "d", "e", "_", "m", "o", "d", "u", "l", "e", "s">>, TRUE, {File(20, <<"x", ".", "j", "s">>, 10, TRUE, JsApp)}),
      Dir(21, <<".", "g", "i", "t", "h", "u", "b">>, TRUE, {File(22, <<"c", "i", ".", "p", "y">>, 10, TRUE, PyHello)}),
      Dir(23, <<"d", "o", "c", "s">>, TRUE, {File(24, <<"r", ".", "m", "d">>, 10, TRUE, NoMatches)}),
      Dir(25, <<"l", "o", "c", "k", "e", "d">>, FALSE, {File(26, <<"s", ".", "p", "y">>, 10, TRUE, PyHello)}),
      Dir(27, <<"g", "e", "n">>, TRUE, {File(28, <<"g", ".", "p", "y">>, 10, TRUE, PyHello)}),
      Special(29, <<"s", "o", "c", "k">>),
      Unreadable(30, <<"k", "e", "y", ".", "p", "y">>, 20) }

RepoName == <<"r", "e", "p", "o">>

\* the subsets of S with at most n elements
RECURSIVE SubsetsUpTo(_, _)
SubsetsUpTo(S, n) ==
    IF n = 0 THEN {{}}
    ELSE LET smaller == SubsetsUpTo(S, n - 1)
         IN smaller \cup {s \cup {e} : s \in smaller, e \in S}

\* the repositories: every root of at most MaxEntries pool entries, and the
\* root holding the whole pool
Repos ==
    {Dir(0, RepoName, TRUE, es) : es \in SubsetsUpTo(Pool, MaxEntries) \cup {Pool}}
----------------------------------------------------------------------------
(* CodeIndexer: the index builder *)

\* a dict is a function on its keys
EmptyDict == <<>>
DictPut(d, key, val) ==
    [x \in (DOMAIN d) \cup {key} |-> IF x = key THEN val ELSE d[x]]
\* seq[:n] without the limit
Take_All(seq, n) == seq
\* seq[:n]
Take(seq, n) == SubSeq(seq, 1, IF Len(seq) < n THEN Len(seq) ELSE n)

TreeNode(name, type, path, language, imports, functions, classes, variables, line_count, children, file_count) ==
    [name |-> name, type |-> type, path |-> path, summary |-> Nothing,
     language |-> language, imports |-> imports, functions |-> functions,
     classes |-> classes, variables |-> variables, line_count |-> line_count,
     children |-> children, file_count |-> file_count]

CodeIndex(root, repo_path, created_at, version, total_files, total_lines, languages) ==
    [root |-> root, repo_path |-> repo_path, created_at |-> created_at,
     version |-> version, total_files |-> total_files,
     total_lines |-> total_lines, languages |-> languages]

\* self._stats as __init__ and build_index set it
NoStats == [total_files |-> 0, total_lines |-> 0, languages |-> EmptyDict]

RECURSIVE SumOf(_)
SumOf(numbers) ==
    IF numbers = <<>> THEN 0 ELSE Head(numbers) + SumOf(Tail(numbers))

\* self._stats is only ever incremented (total_files += 1, total_lines +=
\* line_count, languages[language] += 1), so what a walk does to it is the
\* sum of the increments made in the turns of its loop
AddStats(turns) ==
    [total_files |-> SumOf([k \in 1..Len(turns) |-> turns[k].stats.total_files]),
     total_lines |-> SumOf([k \in 1..Len(turns) |-> turns[k].stats.total_lines]),
     languages |->
        [l \in UNION {DOMAIN turns[k].stats.languages : k \in 1..Len(turns)} |->
            SumOf([k \in 1..Len(turns) |->
                    IF l \in DOMAIN turns[k].stats.languages
                    THEN turns[k].stats.languages[l] ELSE 0])]]

\* _should_exclude without the startswith test
_should_exclude_ExactName(name, index_config) ==
    \/ \E k \in 1..Len(index_config.exclude) :
          \/ name = index_config.exclude[k]
          \/ GlobMatch(index_config.exclude[k], name)
    \/ StartsWith(name, <<".">>) /\ name # <<".", "g", "i", "t", "h", "u", "b">>

\* _should_exclude(path): a pattern equal to the name or a prefix of it, a
\* pattern the path matches as a glob, or a hidden name other than .github
_should_exclude(name, index_config) ==
    \/ \E k \in 1..Len(index_config.exclude) :
          \/ name = index_config.exclude[k]
          \/ StartsWith(name, index_config.exclude[k])
          \/ GlobMatch(index_config.exclude[k], name)
    \/ StartsWith(name, <<".">>) /\ name # <<".", "g", "i", "t", "h", "u", "b">>

\* {"name", "signature", "docstring", "line"} of a CodeEntity
EntityDict(e) ==
    [name |-> e.name, signature |-> e.signature, docstring |-> e.docstring,
     line |-> e.start_line]

\* what indexing one entry gives: the node, None when the entry is left
\* out, and the increments made to self._stats
Skipped == [node |-> Nothing, stats |-> NoStats]

\* the node of an admitted file, and the increments for it
FileNode(file, path, language, file_info) ==
    [node |-> Just(TreeNode(file.name, "file", path, Just(language),
                Take(file_info.imports, MaxImports),
                [k \in 1..Len(Take(file_info.functions, MaxFunctions)) |->
                    EntityDict(file_info.functions[k])],
                [k \in 1..Len(Take(file_info.classes, MaxClasses)) |->
                    EntityDict(file_info.classes[k])],
                Take(file_info.variables, MaxVariables),
                file_info.line_count, <<>>, 0)),
     stats |-> [total_files |-> 1, total_lines |-> file_info.line_count,
                languages |-> (language :> 1)]]

\* _index_file without the size test
_index_file_AnySize(file, path, index_config) ==
    IF detect_language(file.name) = Nothing THEN Skipped
    ELSE IF detect_language(file.name)[1] \notin index_config.languages THEN Skipped
    ELSE IF parse_file(file) = Nothing THEN Skipped
    ELSE FileNode(file, path, detect_language(file.name)[1], parse_file(file)[1])

\* _index_file(file_path)
_index_file(file, path, index_config) ==
    IF file.size > index_config.max_file_size THEN Skipped
    ELSE IF detect_language(file.name) = Nothing THEN Skipped
    ELSE IF detect_language(file.name)[1] \notin index_config.languages THEN Skipped
    ELSE IF parse_file(file) = Nothing THEN Skipped
    ELSE FileNode(file, path, detect_language(file.name)[1], parse_file(file)[1])

\* the position of an entry in what iterdir yields
ListingRank(entry, order) == IF order = "forward" THEN entry.ino ELSE 0 - entry.ino

\* the sort key (p.is_file(), p.name.lower()); sorted() is stable, so
\* entries with equal keys stay in iterdir order
KeyBefore(a_is_file, a_lower, a_rank, b_is_file, b_lower, b_rank) ==
    \/ ~a_is_file /\ b_is_file
    \/ a_is_file = b_is_file /\ StrLess(a_lower, b_lower)
    \/ a_is_file = b_is_file /\ a_lower = b_lower /\ a_rank < b_rank

\* the sort comparing the names as they are
ComesBefore_CaseSensitive(a, b, order) ==
    KeyBefore(a.kind = "file", a.name, ListingRank(a, order),
              b.kind = "file", b.name, ListingRank(b, order))

ComesBefore(a, b, order) ==
    KeyBefore(a.kind = "file", Lower(a.name), ListingRank(a, order),
              b.kind = "file", Lower(b.name), ListingRank(b, order))

\* the entry that sorted() puts last
LastEntry(entries, order) ==
    CHOOSE e \in entries : \A o \in entries \ {e} : ComesBefore(o, e, order)

\* sorted(dir_path.iterdir(), key=lambda p: (p.is_file(), p.name.lower()))
RECURSIVE SortedEntries(_, _)
SortedEntries(entries, order) ==
    IF entries = {} THEN <<>>
    ELSE Append(SortedEntries(entries \ {LastEntry(entries, order)}, order),
                LastEntry(entries, order))

\* appending the directory node whatever it holds
KeepDirectory_Always(child) == child

\* `if child_node.children or child_node.type == "file"` for a directory
KeepDirectory(child) ==
    IF child.node[1].children # <<>> \/ child.node[1].type = "file"
    THEN child
    ELSE [node |-> Nothing, stats |-> child.stats]

\* the directory node with file_count counting every child as 1
DirectoryNode_CountsChildren(dir, path, turns) ==
    LET kept == SelectSeq(turns, LAMBDA turn : turn.node # Nothing)
    IN  [node |-> Just(TreeNode(dir.name, "directory", path, Nothing, <<>>,
                    <<>>, <<>>, <<>>, 0,
                    [k \in 1..Len(kept) |-> kept[k].node[1]], Len(kept))),
         stats |-> AddStats(SelectSeq(turns, LAMBDA turn : turn.stats # NoStats))]

\* the directory node built from what the turns of the loop gave: the
\* children are the nodes appended, file_count counts 1 for a file and
\* child_node.file_count for a directory
DirectoryNode(dir, path, turns) ==
    LET kept == SelectSeq(turns, LAMBDA turn : turn.node # Nothing)
    IN  [node |-> Just(TreeNode(dir.name, "directory", path, Nothing, <<>>,
                    <<>>, <<>>, <<>>, 0,
                    [k \in 1..Len(kept) |-> kept[k].node[1]],
                    SumOf([k \in 1..Len(kept) |->
                            IF kept[k].node[1].type = "file" THEN 1
                            ELSE kept[k].node[1].file_count]))),
         stats |-> AddStats(SelectSeq(turns, LAMBDA turn : turn.stats # NoStats))]

RECURSIVE _index_directory(_, _, _, _)

\* one turn of the loop without the _should_exclude test
IndexEntry_NoExclusion(entry, path, index_config, order) ==
    IF entry.kind = "dir"
    THEN KeepDirectory(_index_directory(entry, path, index_config, order))
    ELSE IF entry.kind = "file" THEN _index_file(entry, path, index_config)
    ELSE Skipped

\* one turn of the `for entry in entries` loop
IndexEntry(entry, path, index_config, order) ==
    IF _should_exclude(entry.name, index_config) THEN Skipped
    ELSE IF entry.kind = "dir"
    THEN KeepDirectory(_index_directory(entry, path, index_config, order))
    ELSE IF entry.kind = "file" THEN _index_file(entry, path, index_config)
    ELSE Skipped

\* the first k turns of the `for entry in entries` loop: what each gave
RECURSIVE IndexEntries(_, _, _, _, _)
IndexEntries(entries, k, path, index_config, order) ==
    IF k = 0 THEN <<>>
    ELSE Append(IndexEntries(entries, k - 1, path, index_config, order),
                IndexEntry(entries[k], Append(path, entries[k].name),
                           index_config, order))

\* the whole loop
IndexAll(entries, path, index_config, order) ==
    IndexEntries(entries, Len(entries), path, index_config, order)

\* _index_directory(dir_path, repo_root); iterdir raises PermissionError on
\* an unreadable directory
_index_directory(dir, path, index_config, order) ==
    DirectoryNode(dir, path,
        IndexAll(IF dir.readable THEN SortedEntries(dir.entries, order)
                 ELSE <<>>,
                 path, index_config, order))

RepoPath == "/work/repo"
SchemaVersion == "0.1.0"

\* the CodeIndex build_index returns for the walked root, and self._stats
IndexOf(walked, now) ==
    [index |-> CodeIndex(walked.node[1], RepoPath, now, SchemaVersion,
                         walked.stats.total_files, walked.stats.total_lines,
                         walked.stats.languages),
     stats |-> walked.stats]

\* CodeIndexer.build_index(repo_path) on an existing repository, at time now
build_index(repo_path, index_config, order, now) ==
    IndexOf(_index_directory(repo_path, <<>>, index_config, order), now)

----------------------------------------------------------------------------
(* TreeNode.to_dict, CodeIndex.to_dict / from_dict.  A document is the     *)
(* dict json.dumps writes and json.loads gives back: a function on the     *)
(* keys that are present.                                                   *)

\* key: val when cond holds, no key otherwise
Item(cond, key, val) == IF cond THEN key :> val ELSE EmptyDict

RECURSIVE NodeToDict(_)
\* TreeNode.to_dict
NodeToDict(node) ==
    ("name" :> node.name) @@ ("type" :> node.type) @@ ("path" :> node.path)
    @@ Item(node.summary # Nothing /\ node.summary # <<"">>, "summary",
            IF node.summary = Nothing THEN "" ELSE node.summary[1])
    @@ (IF node.type = "file"
        THEN Item(node.language # Nothing /\ node.language # <<"">>, "language",
                  IF node.language = Nothing THEN "" ELSE node.language[1])
             @@ Item(node.imports # <<>>, "imports", node.imports)
             @@ Item(node.functions # <<>>, "functions", node.functions)
             @@ Item(node.classes # <<>>, "classes", node.classes)
             @@ Item(node.variables # <<>>, "variables", node.variables)
             @@ Item(node.line_count # 0, "line_count", node.line_count)
        ELSE Item(node.children # <<>>, "children",
                  [k \in 1..Len(node.children) |-> NodeToDict(node.children[k])])
             @@ Item(node.file_count # 0, "file_count", node.file_count))

\* to_dict without the language map
IndexToDict_NoLanguages(index) ==
    [version |-> index.version, repo_path |-> index.repo_path,
     created_at |-> index.created_at, total_files |-> index.total_files,
     total_lines |-> index.total_lines, root |-> NodeToDict(index.root)]

\* CodeIndex.to_dict
IndexToDict(index) ==
    [version |-> index.version, repo_path |-> index.repo_path,
     created_at |-> index.created_at, total_files |-> index.total_files,
     total_lines |-> index.total_lines, languages |-> index.languages,
     root |-> NodeToDict(index.root)]

\* d.get(key, default)
GetOr(d, key, default) == IF key \in DOMAIN d THEN d[key] ELSE default
\* d.get(key) of an optional field
GetOpt(d, key) == IF key \in DOMAIN d THEN Just(d[key]) ELSE Nothing

RECURSIVE NodeComplete(_)
\* whether parse_node finds node_data["name"], ["type"] and ["path"] in the
\* node and in every node under it (otherwise it raises KeyError)
NodeComplete(d) ==
    /\ {"name", "type", "path"} \subseteq DOMAIN d
    /\ "children" \in DOMAIN d =>
          \A k \in 1..Len(d.children) : NodeComplete(d.children[k])

RECURSIVE parse_node(_)
\* parse_node(node_data) of from_dict, for a node that is complete
parse_node(d) ==
    [name |-> d.name, type |-> d.type, path |-> d.path,
     summary |-> GetOpt(d, "summary"),
     language |-> GetOpt(d, "language"),
     imports |-> GetOr(d, "imports", <<>>),
     functions |-> GetOr(d, "functions", <<>>),
     classes |-> GetOr(d, "classes", <<>>),
     variables |-> GetOr(d, "variables", <<>>),
     line_count |-> GetOr(d, "line_count", 0),
     children |-> IF "children" \in DOMAIN d
                  THEN [k \in 1..Len(d.children) |-> parse_node(d.children[k])]
                  ELSE <<>>,
     file_count |-> GetOr(d, "file_count", 0)]

KeyError == [error |-> "KeyError", index |-> Nothing]

\* from_dict reading created_at with a default instead of requiring it
from_dict_LenientTimestamp(data) ==
    IF "root" \notin DOMAIN data THEN KeyError
    ELSE IF ~NodeComplete(data.root) THEN KeyError
    ELSE IF "repo_path" \notin DOMAIN data THEN KeyError
    ELSE [error |-> "",
          index |-> Just(CodeIndex(parse_node(data.root), data.repo_path,
                        GetOr(data, "created_at", 0),
                        GetOr(data, "version", SchemaVersion),
                        GetOr(data, "total_files", 0),
                        GetOr(data, "total_lines", 0),
                        GetOr(data, "languages", EmptyDict)))]

\* CodeIndex.from_dict(data): the index, or the KeyError of a missing
\* data["root"], data["repo_path"], data["created_at"] or node key
from_dict(data) ==
    IF "root" \notin DOMAIN data THEN KeyError
    ELSE IF ~NodeComplete(data.root) THEN KeyError
    ELSE IF "repo_path" \notin DOMAIN data THEN KeyError
    ELSE IF "created_at" \notin DOMAIN data THEN KeyError
    ELSE [error |-> "",
          index |-> Just(CodeIndex(parse_node(data.root), data.repo_path,
                        data.created_at,
                        GetOr(data, "version", SchemaVersion),
                        GetOr(data, "total_files", 0),
                        GetOr(data, "total_lines", 0),
                        GetOr(data, "languages", EmptyDict)))]

----------------------------------------------------------------------------
(* CodeIndexer.build_index, save_index and load_index over one index file  *)

Orders == {"forward", "reverse"}

\* what the index file holds: the document and who wrote it, save_index
\* ("encode") or another tool or version ("foreign")
Document(origin, data) == [origin |-> origin, data |-> data]

\* the document without some of its keys
DropKeys(d, keys) == [k \in (DOMAIN d) \ keys |-> d[k]]

\* the positions of the nodes of a node document, the root being <<>>
RECURSIVE Positions(_)
Positions(d) ==
    {<<>>} \cup
    (IF "children" \in DOMAIN d
     THEN UNION {{<<k>> \o p : p \in Positions(d.children[k])} :
                    k \in 1..Len(d.children)}
     ELSE {})

RECURSIVE NodeAt(_, _)
NodeAt(d, pos) ==
    IF pos = <<>> THEN d ELSE NodeAt(d.children[Head(pos)], Tail(pos))

\* the node document with some keys of the node at pos removed
RECURSIVE DropAt(_, _, _)
DropAt(d, pos, keys) ==
    IF pos = <<>> THEN DropKeys(d, keys)
    ELSE [d EXCEPT !["children"] =
            [@ EXCEPT ![Head(pos)] = DropAt(@, Tail(pos), keys)]]

\* a repository with files at the root and in nested directories
SampleRepo ==
    Dir(0, RepoName, TRUE, {e \in Pool : e.ino \in {1, 3, 11, 13}})

Versions == {SchemaVersion, "2.0.0"}

\* the keys TreeNode.to_dict may write
NodeKeys ==
    {"name", "type", "path", "summary", "language", "imports", "functions",
     "classes", "variables", "line_count", "children", "file_count"}

\* a saved index with any version value and up to MaxDrop keys missing,
\* at index level and in one node
Variants(saved) ==
    { Document("foreign",
        [DropKeys(saved, q[2]) EXCEPT !["version"] = q[1],
                                      !["root"] = DropAt(@, q[3], q[4])]) :
        q \in { q \in Versions
                      \X SubsetsUpTo((DOMAIN saved) \ {"version", "root"}, MaxDrop)
                      \X Positions(saved.root) \X SubsetsUpTo(NodeKeys, MaxDrop) :
                  /\ Cardinality(q[2]) + Cardinality(q[4]) <= MaxDrop
                  /\ q[4] \subseteq DOMAIN NodeAt(saved.root, q[3]) } }
    \cup { Document("foreign", DropKeys(saved, top)) :
             top \in {s \in SubsetsUpTo(DOMAIN saved, MaxDrop) :
                         s \cap {"version", "root"} # {}} }

\* the index of the sample repository, and the document save_index writes
\* for it
SampleIndex == build_index(SampleRepo, DefaultConfig, "forward", 0).index

SampleDocument == IndexToDict(SampleIndex)

\* a document written by another version of the tool, one that stored
\* neither the total of files nor the language of a file
Older(saved) ==
    Document("foreign",
        [DropKeys(saved, {"total_files"}) EXCEPT
            !["version"] = "2.0.0",
            !["root"] = DropAt(@, CHOOSE pos \in Positions(saved.root) :
                                     "language" \in DOMAIN NodeAt(saved.root, pos),
                               {"language"})])

\* the documents other tools and versions may have written
ForeignDocuments == Variants(SampleDocument) \cup {Older(SampleDocument)}

\* a repository without an index file, or the sample repository with a
\* document written by someone else
CodecInit ==
    /\ \/ /\ repo \in {Just(r) : r \in Repos}
          /\ config \in Configs
          /\ index_file = Nothing
       \/ /\ repo = Just(SampleRepo)
          /\ config = DefaultConfig
          /\ index_file \in {Just(d) : d \in ForeignDocuments}
    /\ clock = 0
    /\ built = Nothing
    /\ loaded = Nothing
    /\ _stats = NoStats
    /\ earlier = Nothing
    /\ NoFacade
    /\ files = Repo(0)
    /\ QueryIdle

\* index = indexer.build_index(repo_path)
CodecBuild ==
    /\ repo # Nothing
    /\ built = Nothing
    /\ \E order \in Orders :
          \E build \in {build_index(repo[1], config, order, clock + 1)} :
              /\ built' = Just(build.index)
              /\ _stats' = build.stats
    /\ clock' = clock + 1
    /\ UNCHANGED <<repo, config, index_file, loaded, earlier, facadevars, queryvars>>

\* indexer.save_index(index, index_path)
CodecSave ==
    /\ built # Nothing
    /\ index_file' = Just(Document("encode", IndexToDict(built[1])))
    /\ index_file' # index_file
    /\ UNCHANGED <<repo, config, clock, built, loaded, _stats, earlier, facadevars, queryvars>>

\* indexer.load_index(index_path): the document read and what from_dict
\* made of it
CodecLoad ==
    /\ index_file # Nothing
    /\ loaded' = Just([document |-> index_file[1],
                       result |-> from_dict(index_file[1].data)])
    /\ loaded' # loaded
    /\ UNCHANGED <<repo, config, clock, index_file, built, _stats, earlier,
                   facadevars, queryvars>>

CodecNext == CodecBuild \/ CodecSave \/ CodecLoad

SpecCodec == CodecInit /\ [][CodecNext]_vars

----------------------------------------------------------------------------
(* CodeIndex.get_compact_tree and CodeTree._find_references *)

\* one line of the compact tree: what it shows and at which depth
TreeLine(kind, depth, name, text, names, more) ==
    [kind |-> kind, depth |-> depth, name |-> name, text |-> text,
     names |-> names, more |-> more]

NamesOf(entries) == [k \in 1..Len(entries) |-> entries[k].name]

RECURSIVE format_node(_, _, _)
RECURSIVE FormatChildren(_, _, _, _)
\* `for i, child in enumerate(node.children): format_node(child, depth + 1)`
FormatChildren(children, k, depth, max_depth) ==
    IF k > Len(children) THEN <<>>
    ELSE format_node(children[k], depth + 1, max_depth)
            \o FormatChildren(children, k + 1, depth, max_depth)

\* format_node(node, depth) of get_compact_tree(max_depth): the lines it appends
format_node(node, depth, max_depth) ==
    IF depth > max_depth THEN <<>>
    ELSE IF node.type = "directory" THEN
        <<TreeLine("directory", depth, node.name, Nothing, <<>>, 0)>>
        \o (IF node.summary # Nothing /\ node.summary # <<"">>
            THEN <<TreeLine("summary", depth, <<>>, node.summary, <<>>, 0)>>
            ELSE <<>>)
        \o FormatChildren(node.children, 1, depth, max_depth)
    ELSE
        <<TreeLine("file", depth, node.name,
                   IF node.language = <<"">> THEN Nothing ELSE node.language,
                   <<>>, 0)>>
        \o (IF node.functions # <<>>
            THEN <<TreeLine("functions", depth, <<>>, Nothing,
                            NamesOf(Take(node.functions, CompactLimit)),
                            IF Len(node.functions) > CompactLimit
                            THEN Len(node.functions) - CompactLimit ELSE 0)>>
            ELSE <<>>)
        \o (IF node.classes # <<>>
            THEN <<TreeLine("classes", depth, <<>>, Nothing,
                            NamesOf(Take(node.classes, CompactLimit)), 0)>>
            ELSE <<>>)

get_compact_tree(index, max_depth) == format_node(index.root, 0, max_depth)

\* the entries whose name holds the symbol, case-insensitively, as
\* references of the given type
EntityReferences_CaseSensitive(type, node, entries, symbol) ==
    LET hits == SelectSeq(entries,
                    LAMBDA e : Contains(GetOr(e, "name", <<>>), symbol))
    IN [k \in 1..Len(hits) |->
            [type |-> type, file |-> node.path, name |-> hits[k].name,
             line |-> GetOpt(hits[k], "line")]]

EntityReferences(type, node, entries, symbol) ==
    LET hits == SelectSeq(entries,
                    LAMBDA e : Contains(Lower(GetOr(e, "name", <<>>)), Lower(symbol)))
    IN [k \in 1..Len(hits) |->
            [type |-> type, file |-> node.path, name |-> hits[k].name,
             line |-> GetOpt(hits[k], "line")]]

RECURSIVE search_node(_, _)
RECURSIVE SearchChildren(_, _, _)
SearchChildren(children, k, symbol) ==
    IF k > Len(children) THEN <<>>
    ELSE search_node(children[k], symbol) \o SearchChildren(children, k + 1, symbol)

\* search_node(node) of _find_references(symbol): the references it appends
search_node(node, symbol) ==
    IF node.type = "file" THEN
        EntityReferences("function", node, node.functions, symbol)
        \o EntityReferences("class", node, node.classes, symbol)
        \o LET hits == SelectSeq(node.imports,
                           LAMBDA imp : Contains(Lower(imp), Lower(symbol)))
           IN [k \in 1..Len(hits) |->
                  [type |-> "import", file |-> node.path, statement |-> hits[k]]]
    ELSE SearchChildren(node.children, 1, symbol)

_find_references(index, symbol) == search_node(index.root, symbol)

----------------------------------------------------------------------------
(* CodeRetriever.query as one call *)

\* context_parts after one entry whose content get_file_content returned
AddSection(parts, path, content) ==
    IF content.some /\ content.text # EmptyText
    THEN Append(parts, Section(path, content.text))
    ELSE parts

\* one turn of the loop over relevant_files, for an entry that is an
\* object: the error it raises, context_parts after it and the number of
\* get_file_content calls that returned
ReadEntry(fs, parts, path, focus) ==
    IF path.t # "str" THEN [error |-> "TypeError", parts |-> parts, reads |-> 0]
    ELSE [error |-> "", reads |-> 1,
          parts |-> AddSection(parts, path.s, GetFileContent(fs, path.s, focus))]

\* the loop over relevant_files from entry k on: the sections, or the
\* error the loop raises
RECURSIVE AssembleContext(_, _, _, _)
AssembleFrom(fs, selection, k, turn) ==
    IF turn.error # "" THEN turn
    ELSE [AssembleContext(fs, selection, k + 1, turn.parts)
             EXCEPT !.reads = @ + turn.reads]

AssembleContext(fs, selection, k, parts) ==
    IF selection.t = "str"
    THEN [error |-> "AttributeError", parts |-> parts, reads |-> 0]
    ELSE IF k > Len(selection.v) THEN [error |-> "", parts |-> parts, reads |-> 0]
    ELSE IF selection.v[k].t # "obj"
    THEN [error |-> "AttributeError", parts |-> parts, reads |-> 0]
    ELSE AssembleFrom(fs, selection, k,
            ReadEntry(fs, parts, DictGet(selection.v[k], "path", JStr("")),
                      DictGet(selection.v[k], "focus", JList(<<>>))))

\* the "## File: {path}" labels of the sections, in their order
SectionLabels(parts) == [k \in 1..Len(parts) |-> parts[k].path]

\* query after the loop: the fallback, or the stage-2 call with the
\* sections it is sent
AnswerFrom(context, stage2) ==
    IF context.error # ""
    THEN [outcome |-> Raised(context.error), chats |-> 1, reads |-> context.reads,
          sent |-> <<>>]
    ELSE IF context.parts = <<>>
    THEN [outcome |-> Returned(UnreadableMessage), chats |-> 1,
          reads |-> context.reads, sent |-> <<>>]
    ELSE IF ~stage2.returned
    THEN [outcome |-> Raised("chat failed"), chats |-> 2, reads |-> context.reads,
          sent |-> SectionLabels(context.parts)]
    ELSE [outcome |-> Returned(stage2.text), chats |-> 2, reads |-> context.reads,
          sent |-> SectionLabels(context.parts)]

\* query after retrieve
QueryFrom(fs, r, stage2) ==
    IF r.raised
    THEN [outcome |-> Raised("TypeError"), chats |-> 1, reads |-> 0, sent |-> <<>>]
    ELSE IF ~Truthy(r.val)
    THEN [outcome |-> Returned(NoFilesMessage), chats |-> 1, reads |-> 0,
          sent |-> <<>>]
    ELSE AnswerFrom(AssembleContext(fs, r.val, 1, <<>>), stage2)

\* query(question) given what the two chat calls do: how it ends, the
\* number of chat calls it makes, the number of files it asks for and the
\* labels of the sections it sends to stage 2
QueryCall(fs, stage1, stage2) ==
    IF ~stage1.chat.returned
    THEN [outcome |-> Raised("chat failed"), chats |-> 1, reads |-> 0,
          sent |-> <<>>]
    ELSE QueryFrom(fs, stage1.retrieved, stage2)

----------------------------------------------------------------------------
(* The CodeTree facade *)

NoIndexError == "No index available. Run build_index() first."
\* ValueError("Repository path does not exist: ...")
RepositoryNotFound == "Repository path does not exist"
\* ValueError("Unknown LLM provider: ...")
UnknownProvider == "Unknown LLM provider"

\* the providers create_llm_client knows
Providers == {"openai", "anthropic", "ollama"}

\* the `index` property: the error load_index raises, if any, and
\* self._index afterwards
index_property_NoLoad(cached, file) == [error |-> "", _index |-> cached]

\* self._index after load_index returned or raised
AfterLoad(cached, result) ==
    IF result.error # "" THEN [error |-> result.error, _index |-> cached]
    ELSE [error |-> "", _index |-> result.index]

index_property(cached, file) ==
    IF cached = Nothing /\ file # Nothing
    THEN AfterLoad(cached, from_dict(file[1].data))
    ELSE [error |-> "", _index |-> cached]

\* a facade call: the operation, the error it raised ("" when it
\* returned), whether it constructed a reasoner client, the number of
\* chat calls it made, the number of get_file_content calls and the
\* labels of the sections sent to stage 2 (only CodeRetriever.query reads
\* or sends any) and the save argument (only build_index has one)
Call(op, error, constructed, chats) ==
    [op |-> op, error |-> error, constructed |-> constructed, chats |-> chats,
     reads |-> 0, sent |-> <<>>, save |-> FALSE]

\* the symbols find is asked for: "", "APP", "os", "FOO", "zz"
Symbols ==
    {<<>>, <<"A", "P", "P">>, <<"o", "s">>, <<"F", "O", "O">>, <<"z", "z">>}

\* the paths the reasoner names that are absolute
AbsolutePaths == {"/etc/passwd"}

\* what self.repo_path / file_path reads for the paths the reasoner may
\* name: a.py and the hidden .env.py in the repository, s.py next to the
\* repository, /etc/passwd (joining an absolute path gives that path)
TreeFiles ==
    [p \in {"a.py", ".env.py", "../s.py", "/etc/passwd", ""} |->
        IF p = "" THEN Directory ELSE TextFile(Lines(MaxShort))]

\* what Path(index.repo_path) / path reads: under a root that does not
\* exist only an absolute path names a file
Disk(index) ==
    IF index.repo_path = RepoPath /\ repo # Nothing THEN files
    ELSE [p \in AbsolutePaths \cap DOMAIN files |-> files[p]]

\* the stage-1 replies: no object, a readable file, a missing file, a bare
\* string, and files that are not in the index (hidden, next to the
\* repository, elsewhere on the disk)
TreeResponses ==
    {<<>>} \cup
    {SelectionObject(l) :
        l \in {<<ObjEntry("a.py", FocusAbsent)>>,
               <<ObjEntry("gone.py", FocusAbsent)>>, <<StrEntry>>,
               <<ObjEntry(".env.py", FocusAbsent), ObjEntry("../s.py", FocusAbsent),
                 ObjEntry("/etc/passwd", FocusAbsent)>>}}

\* the stage-1 chat calls, each with what retrieve makes of the reply
Stage1Calls ==
    {[chat |-> ChatFailed(1), retrieved |-> Retrieve(<<>>)]}
        \cup {[chat |-> ChatReturned(1, t), retrieved |-> Retrieve(t)] :
                  t \in TreeResponses}

\* the repository is missing, or is the sample one
TreeRepos == {Nothing, Just(SampleRepo)}
TreeConfigs ==
    {DefaultConfig, [DefaultConfig EXCEPT !.provider = "llamafile"]}

\* self.indexer.build_index(self.repo_path) for each repository,
\* configuration and time of a facade, in each order iterdir may list the
\* entries
TreeBuilds ==
    {[of |-> <<r[1], c, at>>, build |-> build_index(r[1], c, order, at)] :
        r \in TreeRepos \ {Nothing}, c \in TreeConfigs, at \in 1..MaxBuilds,
        order \in Orders}

\* documents found at the index path that this facade did not write: the
\* saved one, one saved for another repository, one cut short
Strays(saved) ==
    { Document("foreign", saved),
      Document("foreign", [saved EXCEPT !["repo_path"] = "/work/other"]),
      Document("foreign", DropKeys(saved, {"created_at"})) }

TreeDocuments == Strays(SampleDocument)

\* CodeTree(repo_path, config) on a repository without an index file
TreeInit ==
    /\ repo \in TreeRepos
    /\ config \in TreeConfigs
    /\ index_file = Nothing
    /\ clock = 0
    /\ built = Nothing
    /\ loaded = Nothing
    /\ _stats = NoStats
    /\ earlier = Nothing
    /\ _index = Nothing
    /\ _retriever = Nothing
    /\ last = NoCall
    /\ returned = <<>>
    /\ files = TreeFiles
    /\ QueryIdle

\* build_index(save) without `self._retriever = None`
BuildAndSave_KeepsRetriever(build, save) ==
    /\ _index' = Just(build.index)
    /\ _stats' = build.stats
    /\ _retriever' = _retriever
    /\ index_file' = IF save THEN Just(Document("encode", IndexToDict(build.index)))
                     ELSE index_file
    /\ clock' = clock + 1
    /\ last' = [Call("build_index", "", FALSE, 0) EXCEPT !.save = save]
    /\ returned' = build.index

\* build_index(save) writing the document whatever save is
BuildAndSave_AlwaysSaves(build, save) ==
    /\ _index' = Just(build.index)
    /\ _stats' = build.stats
    /\ _retriever' = Nothing
    /\ index_file' = Just(Document("encode", IndexToDict(build.index)))
    /\ clock' = clock + 1
    /\ last' = [Call("build_index", "", FALSE, 0) EXCEPT !.save = save]
    /\ returned' = build.index

\* build_index(save) for a repository that exists: what self.indexer
\* returned and left in its _stats
BuildAndSave(build, save) ==
    /\ _index' = Just(build.index)
    /\ _stats' = build.stats
    /\ _retriever' = Nothing
    /\ index_file' = IF save THEN Just(Document("encode", IndexToDict(build.index)))
                     ELSE index_file
    /\ clock' = clock + 1
    /\ last' = [Call("build_index", "", FALSE, 0) EXCEPT !.save = save]
    /\ returned' = build.index

\* build_index(save) for a repository that does not exist, had the index
\* and the retriever been reset before the indexer ran
RepositoryMissing_AfterReset ==
    /\ last' = Call("build_index", RepositoryNotFound, FALSE, 0)
    /\ returned' = <<>>
    /\ _index' = Nothing
    /\ _retriever' = Nothing
    /\ UNCHANGED <<index_file, clock, _stats>>

\* build_index(save) for a repository that does not exist: the indexer
\* raises before anything is assigned
RepositoryMissing ==
    /\ last' = Call("build_index", RepositoryNotFound, FALSE, 0)
    /\ returned' = <<>>
    /\ UNCHANGED <<_index, _retriever, index_file, clock, _stats>>

\* build_index(save)
TreeBuildIndex ==
    /\ clock < MaxBuilds
    /\ IF repo = Nothing
       THEN RepositoryMissing
       ELSE \E run \in {b \in TreeBuilds : b.of = <<repo[1], config, clock + 1>>} :
            \E save \in BOOLEAN :
                BuildAndSave(run.build, save)
    /\ UNCHANGED <<repo, config, built, loaded, earlier, queryvars>>

\* a call that needs self.index and nothing else: `if self.index is None:
\* raise RuntimeError(...)`, then the value computed from the index, one of
\* values depending on the argument of the call
IndexCall(op, got, values) ==
    /\ _index' = got._index
    /\ IF got.error # ""
       THEN last' = Call(op, got.error, FALSE, 0) /\ returned' = <<>>
       ELSE IF got._index = Nothing
       THEN last' = Call(op, NoIndexError, FALSE, 0) /\ returned' = <<>>
       ELSE last' = Call(op, "", FALSE, 0) /\ returned' \in values
    /\ UNCHANGED <<_retriever, indexervars, queryvars>>

\* find(symbol) once self.index has been read: the symbol asked for and
\* the references returned
FindCall(got) ==
    IndexCall("find", got,
        {<<symbol, _find_references(got._index[1], symbol)>> : symbol \in Symbols})

\* find(symbol)
TreeFind == FindCall(index_property(_index, index_file))

\* tree(max_depth) once self.index has been read
TreeCall(got) ==
    IndexCall("tree", got,
        {get_compact_tree(got._index[1], max_depth) : max_depth \in 0..DefaultMaxDepth})

\* tree(max_depth)
TreeTree == TreeCall(index_property(_index, index_file))

\* stats() once self.index has been read
StatsCall(got) ==
    IndexCall("stats", got,
        {[repo_path |-> got._index[1].repo_path,
          total_files |-> got._index[1].total_files,
          total_lines |-> got._index[1].total_lines,
          languages |-> got._index[1].languages,
          created_at |-> got._index[1].created_at]})

\* stats()
TreeStats == StatsCall(index_property(_index, index_file))

\* how self.retriever.query(question) ends
QueryEnds(run, constructed) ==
    /\ last' = [Call("query",
                     IF run.outcome.kind = "raised" THEN run.outcome.text ELSE "",
                     constructed, run.chats)
                    EXCEPT !.reads = run.reads, !.sent = run.sent]
    /\ returned' = IF run.outcome.kind = "raised" THEN <<>> ELSE run.outcome.text

\* self.retriever.query(question) on the retriever serving an index
RetrieverQuery(serving, constructed) ==
    /\ _retriever' = Just(serving)
    /\ \E run \in {QueryCall(Disk(serving), stage1, stage2) :
                        stage1 \in Stage1Calls,
                        stage2 \in {ChatFailed(2)}
                                    \cup {ChatReturned(2, a) : a \in Answers}} :
          QueryEnds(run, constructed)

\* the `retriever` property when no retriever is cached, had the reasoner
\* client been created on first use
NewRetriever_LazyClient(got) ==
    /\ _index' = got._index
    /\ IF got.error # ""
       THEN /\ last' = Call("query", got.error, FALSE, 0)
            /\ returned' = <<>>
            /\ _retriever' = _retriever
       ELSE IF got._index = Nothing
       THEN /\ last' = Call("query", NoIndexError, FALSE, 0)
            /\ returned' = <<>>
            /\ _retriever' = _retriever
       ELSE RetrieverQuery(got._index[1], TRUE)

\* the `retriever` property when no retriever is cached
NewRetriever(got) ==
    /\ _index' = got._index
    /\ IF got.error # ""
       THEN /\ last' = Call("query", got.error, FALSE, 0)
            /\ returned' = <<>>
            /\ _retriever' = _retriever
       ELSE IF got._index = Nothing
       THEN /\ last' = Call("query", NoIndexError, FALSE, 0)
            /\ returned' = <<>>
            /\ _retriever' = _retriever
       ELSE IF config.provider \notin Providers
       THEN /\ last' = Call("query", UnknownProvider, FALSE, 0)
            /\ returned' = <<>>
            /\ _retriever' = _retriever
       ELSE RetrieverQuery(got._index[1], TRUE)

\* query(question): the `retriever` property, then CodeRetriever.query
TreeQuery ==
    /\ IF _retriever # Nothing
       THEN _index' = _index /\ RetrieverQuery(_retriever[1], FALSE)
       ELSE NewRetriever(index_property(_index, index_file))
    /\ UNCHANGED <<indexervars, queryvars>>

\* another process starts on the same repository: CodeTree(repo_path, config)
TreeNew ==
    /\ _index # Nothing \/ last # NoCall
    /\ config' \in TreeConfigs
    /\ _index' = Nothing
    /\ _retriever' = Nothing
    /\ last' = NoCall
    /\ returned' = <<>>
    /\ UNCHANGED <<repo, clock, index_file, built, loaded, _stats, earlier, queryvars>>

\* someone removes the index file
IndexFileRemoved ==
    /\ index_file # Nothing
    /\ index_file' = Nothing
    /\ UNCHANGED <<repo, config, clock, built, loaded, _stats, earlier, facadevars, queryvars>>

\* someone puts a document at the index path
IndexFileWritten ==
    /\ repo # Nothing
    /\ index_file' \in {Just(d) : d \in TreeDocuments}
    /\ index_file' # index_file
    /\ UNCHANGED <<repo, config, clock, built, loaded, _stats, earlier, facadevars, queryvars>>

\* the repository changes on disk; the index file goes with a removed
\* repository
RepoChanged ==
    /\ repo' \in TreeRepos \ {repo}
    /\ index_file' = IF repo' = Nothing THEN Nothing ELSE index_file
    /\ UNCHANGED <<config, clock, built, loaded, _stats, earlier, facadevars, queryvars>>

TreeNext ==
    \/ TreeBuildIndex
    \/ TreeFind
    \/ TreeTree
    \/ TreeStats
    \/ TreeQuery
    \/ TreeNew
    \/ IndexFileRemoved
    \/ IndexFileWritten
    \/ RepoChanged

SpecTree == TreeInit /\ [][TreeNext]_vars

----------------------------------------------------------------------------
(* One CodeIndexer building the same repository again, and the compact     *)
(* tree of what it built                                                    *)

\* the entries of the repositories built twice: a short and a long Python
\* file, two names that differ in case only, a directory
IndexerPool == {e \in Pool : e.ino \in {1, 4, 5, 6, 13}}

\* every root of at most MaxEntries of them, and the root holding them all
IndexerRepos ==
    {Dir(0, RepoName, TRUE, es) :
        es \in SubsetsUpTo(IndexerPool, MaxEntries) \cup {IndexerPool}}

\* indexer = CodeIndexer(config)
IndexerInit ==
    /\ repo \in {Just(r) : r \in IndexerRepos}
    /\ config \in Configs
    /\ index_file = Nothing
    /\ clock = 0
    /\ built = Nothing
    /\ loaded = Nothing
    /\ _stats = NoStats
    /\ earlier = Nothing
    /\ NoFacade
    /\ files = Repo(0)
    /\ QueryIdle

\* index = indexer.build_index(repo_path): self._stats is set to zeros
\* before the walk, whatever it held
IndexerBuild ==
    /\ clock < MaxBuilds
    /\ \E build \in {build_index(repo[1], config, order, clock + 1) :
                        order \in Orders} :
          /\ built' = Just(build.index)
          /\ _stats' = build.stats
    /\ earlier' = built
    /\ clock' = clock + 1
    /\ UNCHANGED <<repo, config, index_file, loaded, facadevars, queryvars>>

\* indexer = CodeIndexer(config) again: another instance, its counters zero
IndexerNew ==
    /\ _stats # NoStats
    /\ _stats' = NoStats
    /\ UNCHANGED <<repo, config, clock, index_file, built, loaded, earlier,
                   facadevars, queryvars>>

\* index.get_compact_tree(max_depth): the depth asked for and the lines
IndexerRender ==
    /\ built # Nothing
    /\ \E max_depth \in 0..DefaultMaxDepth :
          returned' = <<max_depth, get_compact_tree(built[1], max_depth)>>
    /\ UNCHANGED <<indexervars, _index, _retriever, last, queryvars>>

IndexerNext == IndexerBuild \/ IndexerNew \/ IndexerRender

SpecIndexer == IndexerInit /\ [][IndexerNext]_vars

----------------------------------------------------------------------------
(* Properties of the retrieval protocol *)

Min(a, b) == IF a < b THEN a ELSE b
MinOf(S) == CHOOSE k \in S : \A j \in S : k <= j
MaxOf(S) == CHOOSE k \in S : \A j \in S : j <= k

Stage1Returned == chat_log # <<>> /\ chat_log[1].returned
\* the stage-1 response has been parsed by the current query
Parsed == pc \in {"assemble", "stage2", "done"} /\ Stage1Returned
ChatCalls(stage) == Cardinality({k \in 1..Len(chat_log) : chat_log[k].stage = stage})

Opens(text) == {k \in 1..Len(text) : text[k] = "{"}
Closes(text) == {k \in 1..Len(text) : text[k] = "}"}
\* the text from the first "{" to the last "}" inclusive, <<>> if there is none
OuterSpan(text) ==
    IF Opens(text) = {} \/ Closes(text) = {} THEN <<>>
    ELSE IF MaxOf(Closes(text)) < MinOf(Opens(text)) THEN <<>>
    ELSE SubSeq(text, MinOf(Opens(text)), MaxOf(Closes(text)))

HasKey(obj, key) == \E k \in 1..Len(obj.m) : obj.m[k][1] = key

\* no "{"..."}" span, or one that is not JSON, or an object without
\* relevant_files, or one whose relevant_files is the empty list
Unusable(text) ==
    \/ OuterSpan(text) = <<>>
    \/ ~json_loads(OuterSpan(text)).ok
    \/ ~HasKey(json_loads(OuterSpan(text)).val, "relevant_files")
    \/ DictGet(json_loads(OuterSpan(text)).val, "relevant_files", JNull) = JList(<<>>)

\* C1: once the stage-1 response is parsed and it holds no parsable JSON
\* object, or an object without relevant_files or with an empty
\* relevant_files list, the query has returned exactly the fixed "I couldn't
\* identify any relevant files..." message, chat has been invoked exactly
\* once (stage 1), and no file was read.
C1_FallbackOnUnusableResponse ==
    (Parsed /\ Unusable(response)) =>
        /\ pc = "done"
        /\ outcome = Returned(NoFilesMessage)
        /\ Len(chat_log) = 1 /\ chat_log[1].stage = 1
        /\ reads = <<>> /\ context_parts = <<>>

\* a query that returned the fallback on a response whose braces do not
\* enclose JSON
C1_Witness ==
    /\ pc = "done" /\ Stage1Returned
    /\ OuterSpan(response) # <<>> /\ ~json_loads(OuterSpan(response)).ok
    /\ outcome = Returned(NoFilesMessage)

\* C2: every query calls chat exactly once for stage 1 and at most once for
\* stage 2, never more than twice in all; when the query is over, stage 2
\* was called if and only if at least one context section was assembled, and
\* then the value returned is exactly the text the second call returned.
C2_ChatProtocol ==
    /\ Len(chat_log) <= 2
    /\ ChatCalls(1) <= 1 /\ ChatCalls(2) <= 1
    /\ (pc # "idle" => ChatCalls(1) = 1 /\ chat_log[1].stage = 1)
    /\ (pc = "done" => (ChatCalls(2) = 1 <=> context_parts # <<>>))
    /\ (pc = "done" /\ ChatCalls(2) = 1 /\ chat_log[2].returned
            => outcome = Returned(chat_log[2].text))

\* the path of a selection entry, as query reads it
EntryPath(entry) == DictGet(entry, "path", JStr(""))

\* the file is missing, cannot be read as text, or has no content
Unavailable(fs, path) ==
    \/ FileAt(fs, path).kind \in {"missing", "binary", "dir"}
    \/ FileAt(fs, path).lines = EmptyText

\* a non-empty selection none of whose paths yields content
NothingReadable ==
    /\ Parsed
    /\ relevant_files.t = "list" /\ relevant_files.v # <<>>
    /\ \A k \in 1..Len(relevant_files.v) :
          /\ relevant_files.v[k].t = "obj"
          /\ EntryPath(relevant_files.v[k]).t = "str"
          /\ Unavailable(files, EntryPath(relevant_files.v[k]).s)

\* C3 as stated: with a non-empty selection and no context assembled, query
\* returns the same "couldn't identify any relevant files" message as for an
\* empty selection, without a second chat call.
C3_SameFallback ==
    (NothingReadable /\ pc = "done") =>
        /\ outcome = Returned(NoFilesMessage)
        /\ Len(chat_log) = 1

\* C3, amended: with a non-empty selection and no context assembled, query
\* returns the fixed message "I found relevant files but couldn't read their
\* contents.", which is not the empty-selection message, and chat is never
\* called a second time.
C3_UnreadableMessage ==
    NothingReadable =>
        /\ pc # "stage2"
        /\ Len(chat_log) = 1
        /\ context_parts = <<>>
        /\ (pc = "done" => outcome = Returned(UnreadableMessage))
        /\ UnreadableMessage # NoFilesMessage

\* a finished query that selected two files, neither with content
C3_Witness ==
    /\ NothingReadable /\ pc = "done"
    /\ Len(relevant_files.v) >= 2
    /\ outcome = Returned(UnreadableMessage)

\* the first ContextLineLimit lines, then the count of the remaining lines
\* exactly when there are more
FirstLinesOf(lines) ==
    IF Len(lines) > ContextLineLimit
    THEN SubSeq(lines, 1, ContextLineLimit) \o <<0, ContextLineLimit - Len(lines)>>
    ELSE lines

\* C4: every section of the stage-2 context, whether or not its selection
\* entry carried a focus list, holds at most the first 200 lines of its file,
\* followed by the count of the remaining lines exactly when the file has
\* more than 200 lines.
C4_ContextTruncated ==
    \A k \in 1..Len(stage2_request) :
        stage2_request[k].text =
            FirstLinesOf(FileAt(files, stage2_request[k].path).lines)

\* index of the "}" that closes the object open at depth `depth`, 0 if none
RECURSIVE BalancedEnd(_, _, _)
BalancedEnd(text, i, depth) ==
    IF i > Len(text) THEN 0
    ELSE IF text[i] = "{" THEN BalancedEnd(text, i + 1, depth + 1)
    ELSE IF text[i] = "}" THEN
        IF depth = 1 THEN i ELSE BalancedEnd(text, i + 1, depth - 1)
    ELSE BalancedEnd(text, i + 1, depth)

\* the first balanced {...} span of the text, <<>> if there is none
FirstBalancedSpan(text) ==
    IF Opens(text) = {} THEN <<>>
    ELSE IF BalancedEnd(text, MinOf(Opens(text)) + 1, 1) = 0 THEN <<>>
    ELSE SubSeq(text, MinOf(Opens(text)),
                BalancedEnd(text, MinOf(Opens(text)) + 1, 1))

\* C5: the parser reads the first balanced {...} span: when that span is a
\* JSON object with a non-empty relevant_files list, the selection is the
\* capped prefix of that list, whatever text (another "}" included) follows.
C5_FirstBalancedSpan ==
    LET first == json_loads(FirstBalancedSpan(response))
        rf == DictGet(first.val, "relevant_files", JNull)
    IN (Parsed /\ FirstBalancedSpan(response) # <<>> /\ first.ok
            /\ rf.t = "list" /\ rf.v # <<>>)
        => relevant_files = JList(SubSeq(rf.v, 1, Min(max_files, Len(rf.v))))

\* C6: the parser parses exactly the text from the first "{" to the last "}"
\* of the response: with no such span, or a span that is not valid JSON, the
\* selection is empty (and the query falls back); with a span that is a JSON
\* object the selection is read from that object's relevant_files.
C6_FirstOpenToLastClose ==
    Parsed =>
        IF OuterSpan(response) = <<>> \/ ~json_loads(OuterSpan(response)).ok
        THEN relevant_files = JList(<<>>) /\ outcome = Returned(NoFilesMessage)
        ELSE LET rf == DictGet(json_loads(OuterSpan(response)).val,
                               "relevant_files", JList(<<>>))
             IN rf.t = "list" =>
                    /\ relevant_files.t = "list"
                    /\ Len(relevant_files.v) <= Len(rf.v)
                    /\ relevant_files.v = SubSeq(rf.v, 1, Len(relevant_files.v))
                    /\ (rf.v # <<>> => relevant_files.v # <<>>)

\* a selection read from an object that has prose before and after it
C6_Witness ==
    /\ Parsed /\ Len(response) > 2
    /\ response[1] = "x" /\ response[Len(response)] = "x"
    /\ relevant_files.t = "list" /\ Len(relevant_files.v) >= 2

\* the relevant_files value the reasoner sent, when it sent a list
SentList ==
    DictGet(json_loads(OuterSpan(response)).val, "relevant_files", JList(<<>>))
SentAList ==
    /\ OuterSpan(response) # <<>> /\ json_loads(OuterSpan(response)).ok
    /\ SentList.t = "list"

\* C7: the selection is the prefix of length min(5, n) of the reasoner's
\* list of length n, entry for entry (same order, duplicates kept, nothing
\* filtered); the loop reads the selected files in that order, one read per
\* entry whose path exists, and never more than 5 files per query.
C7_SelectionIsCappedPrefix ==
    /\ Len(reads) <= max_files
    /\ (Parsed /\ SentAList) =>
          /\ relevant_files =
                JList(SubSeq(SentList.v, 1, Min(max_files, Len(SentList.v))))
          /\ (pc = "stage2" \/ (pc = "done" /\ outcome.kind = "returned")) =>
                reads = SelectSeq(
                    [k \in 1..Len(relevant_files.v) |-> EntryPath(relevant_files.v[k]).s],
                    LAMBDA p : FileAt(files, p).kind # "missing")

\* a list longer than the cap, with a repeated entry, read to the end
C7_Witness ==
    /\ pc = "done" /\ Parsed /\ SentAList
    /\ Len(SentList.v) > max_files
    /\ Len(reads) = max_files
    /\ reads[1] = reads[2]

----------------------------------------------------------------------------
(* Properties of the facade *)

\* a call of query, find, tree or stats: the steps that end with such a
\* call as the last one and leave the repository and the index file as
\* they were (the other steps either record build_index, or no call for
\* a new facade, or change the repository or the index file)
NeedsIndexStep ==
    /\ last'.op \in {"query", "find", "tree", "stats"}
    /\ repo' = repo
    /\ index_file' = index_file

\* a call of build_index: it ends with build_index as the last call, and
\* either advanced the clock or left the index file alone
BuildIndexStep ==
    /\ last'.op = "build_index"
    /\ repo' = repo
    /\ clock' # clock \/ index_file' = index_file

\* neither an index in memory nor a document at the index path
NoIndexAnywhere == _index = Nothing /\ index_file = Nothing

\* C8: whatever happened before, query, find, tree and stats fail with the
\* no-index error exactly when the facade holds no index in memory and no
\* document is at the index path; such a call constructs no reasoner
\* client, makes no chat call and changes nothing (the index, the
\* retriever, the index file, the repository).  build_index never fails
\* with the no-index error, and on an existing repository it returns an
\* index whether or not one existed before.
C8_NoIndexError ==
    [][ /\ NeedsIndexStep =>
            /\ (last'.error = NoIndexError) <=> NoIndexAnywhere
            /\ (last'.error = NoIndexError) =>
                  /\ ~last'.constructed
                  /\ last'.chats = 0
                  /\ UNCHANGED <<_index, _retriever, indexervars, queryvars>>
        /\ BuildIndexStep =>
            /\ last'.error # NoIndexError
            /\ repo # Nothing => last'.error = "" /\ _index' # Nothing
      ]_vars

\* a query that fails for want of an index although an index was built
\* earlier (it was not saved, and the facade is a new one)
C8_Witness ==
    /\ last.op = "query" /\ last.error = NoIndexError
    /\ clock > 0 /\ repo # Nothing

----------------------------------------------------------------------------
(* Properties of the index document *)

\* C9: a document written by save_index for a built index reads back, by
\* load_index, as that very index: the same record field by field and
\* node by node (children in order, paths, languages, imports, function
\* and class entries, variables, line and file counts, repo path,
\* timestamp, version, totals, language map); fields to_dict left out
\* come back as the defaults the build gave them.
C9_RoundTrip ==
    (loaded # Nothing /\ loaded[1].document.origin = "encode") =>
        /\ built # Nothing
        /\ loaded[1].result = [error |-> "", index |-> built]

\* an index with a nested directory, a file with functions but no
\* variables (a field left out on encode) and a language map, read back
C9_Witness ==
    /\ loaded # Nothing /\ loaded[1].document.origin = "encode"
    /\ built # Nothing /\ built[1].languages # EmptyDict
    /\ \E k \in 1..Len(built[1].root.children) :
          /\ built[1].root.children[k].type = "directory"
          /\ built[1].root.children[k].children # <<>>
    /\ \E k \in 1..Len(built[1].root.children) :
          /\ built[1].root.children[k].type = "file"
          /\ built[1].root.children[k].functions # <<>>
          /\ built[1].root.children[k].variables = <<>>
          /\ "variables" \notin
                DOMAIN loaded[1].document.data.root.children[k]

\* the node of an index at a position
RECURSIVE TreeNodeAt(_, _)
TreeNodeAt(node, pos) ==
    IF pos = <<>> THEN node ELSE TreeNodeAt(node.children[Head(pos)], Tail(pos))

IdentityKeys == {"root", "repo_path", "created_at"}
NodeIdentityKeys == {"name", "type", "path"}

\* a decoded node holds what its document holds and the default for
\* every key the document lacks
NodeFilled(d, node) ==
    /\ \A key \in NodeIdentityKeys : node[key] = d[key]
    /\ \A key \in {"imports", "functions", "classes", "variables"} :
          node[key] = IF key \in DOMAIN d THEN d[key] ELSE <<>>
    /\ \A key \in {"line_count", "file_count"} :
          node[key] = IF key \in DOMAIN d THEN d[key] ELSE 0
    /\ \A key \in {"summary", "language"} :
          node[key] = IF key \in DOMAIN d THEN <<d[key]>> ELSE <<>>
    /\ Len(node.children) = IF "children" \in DOMAIN d THEN Len(d.children) ELSE 0

\* a decoded index holds what its document holds, any version included,
\* and the default for every key the document lacks
DefaultsFilled(d, index) ==
    /\ index.repo_path = d.repo_path
    /\ index.created_at = d.created_at
    /\ index.version = IF "version" \in DOMAIN d THEN d.version ELSE "0.1.0"
    /\ index.total_files = IF "total_files" \in DOMAIN d THEN d.total_files ELSE 0
    /\ index.total_lines = IF "total_lines" \in DOMAIN d THEN d.total_lines ELSE 0
    /\ index.languages = IF "languages" \in DOMAIN d THEN d.languages ELSE <<>>
    /\ \A pos \in Positions(d.root) :
          NodeFilled(NodeAt(d.root, pos), TreeNodeAt(index.root, pos))

\* some node of the document lacks its name, type or path
NodeIdentityMissing(d) ==
    /\ "root" \in DOMAIN d
    /\ \E pos \in Positions(d.root) :
          ~(NodeIdentityKeys \subseteq DOMAIN NodeAt(d.root, pos))

\* C10 as stated: load fails exactly when root, repo_path or created_at is
\* missing, and otherwise succeeds with every absent field defaulted.
C10_FailsOnlyOnIndexIdentity ==
    loaded # Nothing =>
        /\ (loaded[1].result.error = "KeyError")
              <=> ~(IdentityKeys \subseteq DOMAIN loaded[1].document.data)
        /\ IdentityKeys \subseteq DOMAIN loaded[1].document.data =>
              DefaultsFilled(loaded[1].document.data, loaded[1].result.index[1])

\* C10, amended: for a document whose present fields have the types
\* save_index writes, load fails with the malformed-document error
\* exactly when root, repo_path or created_at is missing or some node of
\* the tree lacks its name, type or path; every other document is read,
\* whatever its version value, with every other absent field of the index
\* and of each node at its default (empty sequence, zero count, absent
\* summary or language, version "0.1.0", empty language map).
C10_FailsOnIndexOrNodeIdentity ==
    loaded # Nothing =>
        IF \/ ~(IdentityKeys \subseteq DOMAIN loaded[1].document.data)
           \/ NodeIdentityMissing(loaded[1].document.data)
        THEN loaded[1].result = [error |-> "KeyError", index |-> <<>>]
        ELSE /\ loaded[1].result.error = ""
             /\ DefaultsFilled(loaded[1].document.data, loaded[1].result.index[1])

\* a document of another version without the totals and with a file node
\* that has no function list, read with the defaults in their place
C10_Witness ==
    /\ loaded # Nothing /\ loaded[1].document.origin = "foreign"
    /\ loaded[1].result.error = ""
    /\ "version" \in DOMAIN loaded[1].document.data
    /\ loaded[1].document.data.version = "2.0.0"
    /\ "total_files" \notin DOMAIN loaded[1].document.data
    /\ loaded[1].result.index[1].total_files = 0
    /\ \E pos \in Positions(loaded[1].document.data.root) :
          /\ NodeAt(loaded[1].document.data.root, pos).type = "file"
          /\ "language" \notin DOMAIN NodeAt(loaded[1].document.data.root, pos)
          /\ TreeNodeAt(loaded[1].result.index[1].root, pos).language = <<>>

----------------------------------------------------------------------------
(* Properties of the built tree and of its encoding *)

\* the nodes of a tree: the node itself and everything under it
RECURSIVE NodesOf(_)
NodesOf(node) ==
    {node} \cup UNION {NodesOf(node.children[k]) : k \in 1..Len(node.children)}

\* the node documents of an encoded tree
RECURSIVE NodeDocuments(_)
NodeDocuments(d) ==
    {d} \cup
    (IF "children" \in DOMAIN d
     THEN UNION {NodeDocuments(d.children[k]) : k \in 1..Len(d.children)}
     ELSE {})

\* the document save_index wrote, if the index file holds one
Encoded ==
    IF index_file # Nothing /\ index_file[1].origin = "encode"
    THEN {index_file[1].data} ELSE {}

\* no list-valued or count-valued optional key of a node document holds an
\* empty list or a zero, and no language key holds an empty string
NodeFieldsOmitted(d) ==
    /\ \A key \in {"imports", "functions", "classes", "variables", "children"}
                      \cap DOMAIN d : d[key] # <<>>
    /\ \A key \in {"line_count", "file_count"} \cap DOMAIN d : d[key] # 0
    /\ "language" \in DOMAIN d => d.language # ""

\* no function or class entry of a node document holds a null signature
\* or a null docstring
EntryFieldsOmitted(d) ==
    \A key \in {"functions", "classes"} \cap DOMAIN d :
        \A k \in 1..Len(d[key]) :
            /\ d[key][k].signature # Nothing
            /\ d[key][k].docstring # Nothing

\* C11: the document save_index writes for a built index holds no optional
\* key whose value is null, an empty list or zero, neither in a node nor in
\* a function or class entry (signature, docstring)
C11_OptionalFieldsOmitted ==
    \A data \in Encoded :
        \A d \in NodeDocuments(data.root) :
            NodeFieldsOmitted(d) /\ EntryFieldsOmitted(d)

\* the names of a tree in child order, level by level
RECURSIVE Outline(_)
Outline(node) ==
    <<node.name, [k \in 1..Len(node.children) |-> Outline(node.children[k])]>>

\* C12: whatever order the filesystem lists the entries in, two builds of
\* the same directory (by the same indexer or by a new one) give the same
\* child order at every level and the same total_files, total_lines and
\* language counts
C12_BuildsAgree ==
    earlier # Nothing /\ built # Nothing =>
        /\ Outline(earlier[1].root) = Outline(built[1].root)
        /\ earlier[1].total_files = built[1].total_files
        /\ earlier[1].total_lines = built[1].total_lines
        /\ earlier[1].languages = built[1].languages

\* children i < j of a node are in canonical order: not a file before a
\* directory, and within a group not a greater lower-cased name first
InCanonicalOrder(first, second) ==
    /\ ~(first.type = "file" /\ second.type = "directory")
    /\ first.type = second.type => ~StrLess(Lower(second.name), Lower(first.name))

\* C13: in every directory node of a built tree the directory children
\* come before the file children, and each group is in ascending
\* case-insensitive order of name
C13_CanonicalChildOrder ==
    built # Nothing =>
        \A node \in NodesOf(built[1].root) :
            \A i, j \in 1..Len(node.children) :
                i < j => InCanonicalOrder(node.children[i], node.children[j])

\* a built directory node with a directory child, then a.py, then B.js
C13_Witness ==
    /\ built # Nothing
    /\ \E node \in NodesOf(built[1].root) :
          \E i, j, k \in 1..Len(node.children) :
              /\ i < j /\ j < k
              /\ node.children[i].type = "directory"
              /\ node.children[j].name = <<"a", ".", "p", "y">>
              /\ node.children[k].name = <<"B", ".", "j", "s">>

\* a file the builder indexes when it reaches it: within the size ceiling,
\* of a configured language, readable and decodable
Admissible(entry, index_config) ==
    /\ entry.kind = "file"
    /\ entry.size <= index_config.max_file_size
    /\ detect_language(entry.name) # Nothing
    /\ detect_language(entry.name)[1] \in index_config.languages
    /\ entry.readable /\ entry.decodable

\* the exclusion policy in its two readings: the name is a prefix of a
\* pattern, or a pattern is a prefix of the name; in both, a name equal to
\* a pattern, a glob that matches, and a hidden name other than .github
ExcludedAs(reading, name, index_config) ==
    \/ \E k \in 1..Len(index_config.exclude) :
          \/ name = index_config.exclude[k]
          \/ reading = "name prefixes pattern"
                /\ StartsWith(index_config.exclude[k], name)
          \/ reading = "pattern prefixes name"
                /\ StartsWith(name, index_config.exclude[k])
          \/ GlobMatch(index_config.exclude[k], name)
    \/ StartsWith(name, <<".">>) /\ name # <<".", "g", "i", "t", "h", "u", "b">>

\* the entry of the repository root has a node in the built tree
InTree(entry) ==
    \E k \in 1..Len(built[1].root.children) :
        built[1].root.children[k].name = entry.name

\* what the policy, in a reading, means for the entries of the root: an
\* admissible file is in the tree exactly when it is not excluded, an
\* excluded directory is not in the tree, and a readable directory that is
\* not excluded and holds an admissible file that is not excluded is
PolicyDecides(reading) ==
    built # Nothing =>
        \A entry \in repo[1].entries :
            /\ Admissible(entry, config) =>
                  (InTree(entry) <=> ~ExcludedAs(reading, entry.name, config))
            /\ entry.kind = "dir" /\ ExcludedAs(reading, entry.name, config) =>
                  ~InTree(entry)
            /\ ( /\ entry.kind = "dir" /\ entry.readable
                 /\ ~ExcludedAs(reading, entry.name, config)
                 /\ \E inner \in entry.entries :
                       /\ Admissible(inner, config)
                       /\ ~ExcludedAs(reading, inner.name, config) )
               => InTree(entry)

\* C14: an entry is excluded when its name equals or is a prefix of a
\* configured pattern, or matches a configured glob, or is hidden and not
\* allow-listed, and is not excluded otherwise
C14_NameIsPrefixOfPattern == PolicyDecides("name prefixes pattern")

\* C14, amended: an entry is excluded when a configured pattern equals or
\* is a prefix of its name, or matches it as a glob, or the name is hidden
\* and not allow-listed, and is not excluded otherwise
C14_PatternIsPrefixOfName == PolicyDecides("pattern prefixes name")

\* distutils.py, which starts with the pattern dist, was left out of a
\* build that also left out a hidden file and a directory named by a
\* pattern
C14_Witness ==
    /\ built # Nothing
    /\ \E entry \in repo[1].entries :
          /\ entry.name = <<"d", "i", "s", "t", "u", "t", "i", "l", "s", ".", "p", "y">>
          /\ Admissible(entry, config)
          /\ <<"d", "i", "s", "t">> \in {config.exclude[k] : k \in 1..Len(config.exclude)}
          /\ ~InTree(entry)
    /\ \E entry \in repo[1].entries :
          /\ entry.name = <<".", "e", "n", "v", ".", "p", "y">>
          /\ Admissible(entry, config) /\ ~InTree(entry)
    /\ \E entry \in repo[1].entries :
          /\ entry.name = <<"n", "o", "d", "e", "_", "m", "o", "d", "u", "l", "e", "s">>
          /\ ~InTree(entry)

\* the directory with the contents of every excluded directory removed
RECURSIVE Emptied(_, _)
Emptied(dir, index_config) ==
    [dir EXCEPT !.entries =
        { IF entry.kind # "dir" THEN entry
          ELSE IF ExcludedAs("pattern prefixes name", entry.name, index_config)
          THEN [entry EXCEPT !.entries = {}]
          ELSE Emptied(entry, index_config) : entry \in dir.entries }]

\* the index has the counters of the statistics
SameCounters(index, stats) ==
    /\ index.total_files = stats.total_files
    /\ index.total_lines = stats.total_lines
    /\ index.languages = stats.languages

\* C15: no node of a built tree has a path component that a configured
\* exclusion pattern or the hidden-name rule excludes, and what lies under
\* an excluded directory adds nothing to total_files, total_lines or the
\* language counts: they are what they are with those directories empty
C15_ExcludedNeverIndexed ==
    built # Nothing =>
        /\ \A node \in NodesOf(built[1].root) :
              \A k \in 1..Len(node.path) :
                  ~ExcludedAs("pattern prefixes name", node.path[k], config)
        /\ SameCounters(built[1],
              build_index(Emptied(repo[1], config), config, "forward", 0).stats)

\* a build of a repository with an excluded directory that holds a file
\* the builder would index, and with another directory that was indexed
C15_Witness ==
    /\ built # Nothing
    /\ \E entry \in repo[1].entries :
          /\ entry.kind = "dir" /\ entry.readable
          /\ ExcludedAs("pattern prefixes name", entry.name, config)
          /\ \E inner \in entry.entries :
                /\ Admissible(inner, config)
                /\ ~ExcludedAs("pattern prefixes name", inner.name, config)
          /\ ~InTree(entry)
    /\ \E entry \in repo[1].entries : entry.kind = "dir" /\ InTree(entry)

\* the files the walk reaches, each with its path: those that are not
\* excluded, in the root and in the readable directories that are not
\* excluded
RECURSIVE ReachedFiles(_, _, _)
ReachedFiles(dir, path, index_config) ==
    LET passed == {entry \in dir.entries :
                      ~ExcludedAs("pattern prefixes name", entry.name, index_config)}
    IN  {[path |-> Append(path, entry.name), file |-> entry] :
            entry \in {e \in passed : e.kind = "file"}}
        \cup UNION {ReachedFiles(entry, Append(path, entry.name), index_config) :
                        entry \in {e \in passed : e.kind = "dir" /\ e.readable}}

\* the reasons to skip a file: too large, no known language, a language
\* that is not configured, bytes that are not text; and, when counted, a
\* file that cannot be read
SkipsFor(reasons, file, index_config) ==
    \/ file.size > index_config.max_file_size
    \/ detect_language(file.name) = Nothing
    \/ detect_language(file.name)[1] \notin index_config.languages
    \/ ~file.decodable
    \/ "unreadable" \in reasons /\ ~file.readable

\* the lines of a finite set of reached files, summed
RECURSIVE LinesOf(_)
LinesOf(reached) ==
    IF reached = {} THEN 0
    ELSE LET r == CHOOSE x \in reached : TRUE
         IN r.file.matches.lines + LinesOf(reached \ {r})

\* the counters a build leaves when exactly the files in kept are indexed
CountersOf(kept) ==
    [total_files |-> Cardinality(kept),
     total_lines |-> LinesOf(kept),
     languages |->
        [l \in {detect_language(r.file.name)[1] : r \in kept} |->
            Cardinality({r \in kept : detect_language(r.file.name)[1] = l})]]

\* a reached file has a file node exactly when no reason skips it, and the
\* counters count the files that were not skipped and nothing else
SkippedExactlyFor(reasons) ==
    built # Nothing =>
        LET reached == ReachedFiles(repo[1], <<>>, config)
            nodes == NodesOf(built[1].root)
        IN  /\ \A r \in reached :
                  (\E node \in nodes : node.type = "file" /\ node.path = r.path)
                      <=> ~SkipsFor(reasons, r.file, config)
            /\ SameCounters(built[1],
                  CountersOf({r \in reached : ~SkipsFor(reasons, r.file, config)}))

\* C16: a file that is not excluded is skipped exactly when it is larger
\* than the ceiling, of an unsupported language, of a language that is not
\* configured, or not decodable as text; a skipped file has no node and
\* adds nothing to total_files, total_lines or the language counts
C16_SkippedExactlyWhenListed == SkippedExactlyFor({})

\* C16, amended: a file that is not excluded is skipped exactly when it is
\* larger than the ceiling, of an unsupported language, of a language that
\* is not configured, not decodable as text, or not readable at all; a
\* skipped file has no node and adds nothing to the counters
C16_SkippedAlsoWhenUnreadable == SkippedExactlyFor({"unreadable"})

\* a build that met a file of each kind: too large, unsupported, not
\* configured, undecodable, unreadable, and one it indexed
C16_Witness ==
    /\ built # Nothing
    /\ built[1].total_files > 0
    /\ LET reached == {r.file : r \in ReachedFiles(repo[1], <<>>, config)}
       IN  /\ \E file \in reached : file.size > config.max_file_size
           /\ \E file \in reached : detect_language(file.name) = Nothing
           /\ \E file \in reached :
                 /\ detect_language(file.name) # Nothing
                 /\ detect_language(file.name)[1] \notin config.languages
           /\ \E file \in reached : ~file.decodable
           /\ \E file \in reached : ~file.readable

\* the file nodes of a tree
FileNodesOf(node) == {n \in NodesOf(node) : n.type = "file"}

\* line_count summed over a finite set of file nodes
RECURSIVE LineCountOf(_)
LineCountOf(nodes) ==
    IF nodes = {} THEN 0
    ELSE LET n == CHOOSE x \in nodes : TRUE
         IN n.line_count + LineCountOf(nodes \ {n})

\* C17: in a built index every directory node's file_count is the number
\* of file nodes under it, total_files is the root's file_count,
\* total_lines is the sum of line_count over the file nodes, and the count
\* of each language is the number of file nodes of that language
C17_StatisticsAgreeWithTree ==
    built # Nothing =>
        LET index == built[1]
            file_nodes == FileNodesOf(index.root)
        IN  /\ \A node \in NodesOf(index.root) :
                  node.type = "directory" =>
                      node.file_count = Cardinality(FileNodesOf(node))
            /\ index.total_files = index.root.file_count
            /\ index.total_lines = LineCountOf(file_nodes)
            /\ DOMAIN index.languages = {n.language[1] : n \in file_nodes}
            /\ \A l \in DOMAIN index.languages :
                  index.languages[l] =
                      Cardinality({n \in file_nodes : n.language = Just(l)})

\* a built index with files of two languages, at the root and in a
\* directory holding more than one file
C17_Witness ==
    /\ built # Nothing
    /\ Cardinality(DOMAIN built[1].languages) >= 2
    /\ \E k \in 1..Len(built[1].root.children) :
          built[1].root.children[k].type = "file"
    /\ \E k \in 1..Len(built[1].root.children) :
          /\ built[1].root.children[k].type = "directory"
          /\ built[1].root.children[k].file_count >= 2

\* a stored list holds at most limit items and is the beginning of what
\* the extractor reported
PrefixWithin(stored, reported, limit) ==
    /\ Len(stored) <= limit
    /\ Len(stored) <= Len(reported)
    /\ \A k \in 1..Len(stored) : stored[k] = reported[k]

\* the file node holds the beginnings of what parse_file reported
TruncatedFrom(node, file_info) ==
    /\ PrefixWithin(node.imports, file_info.imports, MaxImports)
    /\ PrefixWithin(node.functions,
                    [k \in 1..Len(file_info.functions) |->
                        EntityDict(file_info.functions[k])], MaxFunctions)
    /\ PrefixWithin(node.classes,
                    [k \in 1..Len(file_info.classes) |->
                        EntityDict(file_info.classes[k])], MaxClasses)
    /\ PrefixWithin(node.variables, file_info.variables, MaxVariables)

\* the lines of a compact tree name at most CompactLimit functions and
\* classes of a file, and there is one directory or file line for each
\* node within max_depth and none for any other (the depth of a node is
\* the length of its path)
RenderBounded(index, lines, max_depth) ==
    /\ \A k \in 1..Len(lines) :
          /\ lines[k].depth <= max_depth
          /\ Len(lines[k].names) <= CompactLimit
          /\ lines[k].kind \in {"directory", "file", "functions", "classes"}
    /\ Cardinality({k \in 1..Len(lines) : lines[k].kind \in {"directory", "file"}})
          = Cardinality({n \in NodesOf(index.root) : Len(n.path) <= max_depth})
    /\ \A k \in 1..Len(lines) :
          lines[k].kind \in {"directory", "file"} =>
              \E n \in NodesOf(index.root) :
                  /\ n.name = lines[k].name /\ n.type = lines[k].kind
                  /\ Len(n.path) = lines[k].depth

\* C18: no file node of a built index holds more than 20 imports, 50
\* functions, 20 classes or 10 variables, each list being the beginning
\* of what the extractor reported; and for every max_depth the compact
\* tree names at most 5 functions and 5 classes per file and has no line
\* for a node deeper than max_depth, nor anything in its place
C18_ListsAndRenderingBounded ==
    built # Nothing =>
        /\ \A node \in FileNodesOf(built[1].root) :
              \E r \in ReachedFiles(repo[1], <<>>, config) :
                  /\ r.path = node.path
                  /\ TruncatedFrom(node, parse_file(r.file)[1])
        /\ \A max_depth \in 0..DefaultMaxDepth :
              RenderBounded(built[1], get_compact_tree(built[1], max_depth),
                            max_depth)

\* the compact tree taken of an index whose tree is deeper than the depth
\* asked for and has a file from which the extractor reported more
\* imports, functions, classes and variables than are kept
C18_Witness ==
    /\ built # Nothing
    /\ returned # <<>>
    /\ returned[2] = get_compact_tree(built[1], returned[1])
    /\ \E n \in NodesOf(built[1].root) : Len(n.path) > returned[1]
    /\ \E r \in ReachedFiles(repo[1], <<>>, config) :
          /\ r.path \in {n.path : n \in FileNodesOf(built[1].root)}
          /\ Len(r.path) <= returned[1]
          /\ Len(parse_file(r.file)[1].imports) > MaxImports
          /\ Len(parse_file(r.file)[1].functions) > MaxFunctions
          /\ Len(parse_file(r.file)[1].classes) > MaxClasses
          /\ Len(parse_file(r.file)[1].variables) > MaxVariables

\* the "(+N more)" of a line naming the first CompactLimit of the entries:
\* N when there are more, 0 for no suffix
MoreThanShown(entries) ==
    IF Len(entries) > CompactLimit THEN Len(entries) - CompactLimit ELSE 0

\* the compact tree has, for the entries of a file node, a line of the
\* kind that names the first CompactLimit of them and ends with the suffix
\* for the rest
ListedWithSuffix(lines, kind, node, entries) ==
    \E k \in 1..Len(lines) :
        /\ lines[k].kind = kind
        /\ lines[k].depth = Len(node.path)
        /\ lines[k].names =
              [i \in 1..(Len(entries) - MoreThanShown(entries)) |-> entries[i].name]
        /\ lines[k].more = MoreThanShown(entries)

\* C19: in the compact tree the functions line of a file with more than 5
\* functions ends with "(+N more)", N the number of functions less 5, and
\* the classes line of a file with more than 5 classes ends with "(+N
\* more)", N the number of classes less 5; a list that is not truncated
\* has no suffix
C19_MoreSuffixOnBothLines ==
    built # Nothing =>
        \A max_depth \in 0..DefaultMaxDepth :
            \A node \in FileNodesOf(built[1].root) :
                Len(node.path) <= max_depth =>
                    /\ node.functions # <<>> =>
                          ListedWithSuffix(get_compact_tree(built[1], max_depth),
                                           "functions", node, node.functions)
                    /\ node.classes # <<>> =>
                          ListedWithSuffix(get_compact_tree(built[1], max_depth),
                                           "classes", node, node.classes)

\* the paths of the files a build indexes: reached and not skipped
IndexedPaths ==
    {r.path : r \in {x \in ReachedFiles(repo[1], <<>>, config) :
                        ~SkipsFor({"unreadable"}, x.file, config)}}

\* C20: every directory node of a built index other than the root has a
\* child and a file_count of at least 1, and lies above an indexed file:
\* a directory with no indexed file under it (empty, or holding only
\* excluded, skipped or such directories) is not in the tree
C20_NoEmptyDirectoryNode ==
    built # Nothing =>
        \A node \in NodesOf(built[1].root) :
            node.type = "directory" /\ node.path # <<>> =>
                /\ node.children # <<>>
                /\ node.file_count >= 1
                /\ \E path \in IndexedPaths :
                      /\ Len(node.path) < Len(path)
                      /\ SubSeq(path, 1, Len(node.path)) = node.path

\* a build that kept a directory and dropped, at the root and inside the
\* kept one, directories that are not excluded and hold no indexed file
C20_Witness ==
    /\ built # Nothing
    /\ \E entry \in repo[1].entries :
          /\ entry.kind = "dir" /\ entry.entries # {}
          /\ ~ExcludedAs("pattern prefixes name", entry.name, config)
          /\ ~InTree(entry)
    /\ \E entry \in repo[1].entries :
          /\ entry.kind = "dir" /\ InTree(entry)
          /\ \E inner \in entry.entries :
                /\ inner.kind = "dir"
                /\ ~ExcludedAs("pattern prefixes name", inner.name, config)
                /\ \A node \in NodesOf(built[1].root) :
                      node.path # <<entry.name, inner.name>>

----------------------------------------------------------------------------
(* Properties of symbol search *)

\* the paths of the file nodes of a tree, in the order they are visited
RECURSIVE FilesInOrder(_)
RECURSIVE FilesInOrderFrom(_, _)
FilesInOrderFrom(children, k) ==
    IF k > Len(children) THEN <<>>
    ELSE FilesInOrder(children[k]) \o FilesInOrderFrom(children, k + 1)
FilesInOrder(node) ==
    IF node.type = "file" THEN <<node.path>>
    ELSE FilesInOrderFrom(node.children, 1)

\* text holds symbol as a substring when case is ignored
HoldsIgnoringCase(text, symbol) ==
    \E at \in 0..(Len(text) - Len(symbol)) :
        \A j \in 1..Len(symbol) :
            LowerChar(text[at + j]) = LowerChar(symbol[j])

\* the entries of a list that a search for the symbol must report
Hits(entries, symbol) ==
    {k \in 1..Len(entries) : HoldsIgnoringCase(entries[k].name, symbol)}
ImportHits(imports, symbol) ==
    {k \in 1..Len(imports) : HoldsIgnoringCase(imports[k], symbol)}

\* the references of a kind that a result holds for a file
RefsOf(refs, kind, path) ==
    {i \in 1..Len(refs) : refs[i].type = kind /\ refs[i].file = path}

\* a reference reports an entry of the list under the kind
Reports(ref, kind, node, entries, symbol) ==
    /\ ref.type = kind
    /\ DOMAIN ref = {"type", "file", "name", "line"}
    /\ \E k \in Hits(entries, symbol) :
          ref.name = entries[k].name /\ ref.line = Just(entries[k].line)

\* what find(symbol) must return for an index
FoundExactly(index, symbol, refs) ==
    LET order == FilesInOrder(index.root) IN
    /\ \A i \in 1..Len(refs) :
          \E node \in FileNodesOf(index.root) :
              /\ refs[i].file = node.path
              /\ \/ Reports(refs[i], "function", node, node.functions, symbol)
                 \/ Reports(refs[i], "class", node, node.classes, symbol)
                 \/ /\ refs[i].type = "import"
                    /\ DOMAIN refs[i] = {"type", "file", "statement"}
                    /\ \E k \in ImportHits(node.imports, symbol) :
                          refs[i].statement = node.imports[k]
    /\ \A node \in FileNodesOf(index.root) :
          /\ Cardinality(RefsOf(refs, "function", node.path))
                = Cardinality(Hits(node.functions, symbol))
          /\ Cardinality(RefsOf(refs, "class", node.path))
                = Cardinality(Hits(node.classes, symbol))
          /\ Cardinality(RefsOf(refs, "import", node.path))
                = Cardinality(ImportHits(node.imports, symbol))
    /\ \A i, j \in 1..Len(refs) :
          i < j => IndexIn(order, refs[i].file) <= IndexIn(order, refs[j].file)

----------------------------------------------------------------------------
(* Properties of the facade's failures *)

\* C22: build_index on a repository root that does not exist fails with
\* the repository-not-found error and changes nothing: the index in
\* memory, the cached retriever and the document at the index path are
\* what they were before the call.
C22_MissingRepositoryChangesNothing ==
    [][ (BuildIndexStep /\ repo = Nothing) =>
            /\ last'.error = RepositoryNotFound
            /\ UNCHANGED <<_index, _retriever, index_file>>
      ]_vars

\* build_index failed for a missing repository on a facade that holds an
\* index and a retriever from the time the repository existed
C22_Witness ==
    /\ last.op = "build_index" /\ last.error = RepositoryNotFound
    /\ repo = Nothing
    /\ _index # Nothing
    /\ _retriever # Nothing

\* C23: with a provider create_llm_client does not know, a query fails
\* without a chat call and without asking for a file, and with the
\* unknown-provider error once an index is there (the failure is raised
\* where the client is constructed, and no retriever is kept);
\* build_index, find, tree and stats construct no client, make no chat
\* call and end as they would with a known provider: never with the
\* unknown-provider error, and with a result whenever the repository,
\* respectively an index in memory, is there.
C23_UnknownProviderFailsAtConstruction ==
    [][ config.provider \notin Providers =>
            /\ (NeedsIndexStep /\ last'.op = "query") =>
                  /\ last'.error # ""
                  /\ last'.chats = 0 /\ last'.reads = 0
                  /\ ~last'.constructed
                  /\ _retriever' = Nothing
                  /\ _index' # Nothing => last'.error = UnknownProvider
            /\ (NeedsIndexStep /\ last'.op # "query") =>
                  /\ last'.error # UnknownProvider
                  /\ last'.chats = 0 /\ ~last'.constructed
                  /\ _index # Nothing => last'.error = ""
            /\ BuildIndexStep =>
                  /\ last'.error # UnknownProvider
                  /\ last'.chats = 0 /\ ~last'.constructed
                  /\ repo # Nothing => last'.error = ""
      ]_vars

\* a query that failed with the unknown-provider error on a facade whose
\* index was built by this very facade
C23_Witness ==
    /\ last.op = "query" /\ last.error = UnknownProvider
    /\ config.provider \notin Providers
    /\ _index # Nothing /\ _index[1].created_at = clock /\ clock > 0

----------------------------------------------------------------------------
(* Properties of the order of a query's steps *)

\* the selection the loop of query runs over, once it is a list
Selection == IF relevant_files.t = "list" THEN relevant_files.v ELSE <<>>

\* the paths get_file_content reads for the first k entries, in their order
ReadPaths(k) ==
    LET hits == SelectSeq(SubSeq(Selection, 1, k),
                    LAMBDA e : ReadsFile(files, EntryPath(e).s))
    IN [i \in 1..Len(hits) |-> EntryPath(hits[i]).s]

\* the entry yields a section: its file has content
YieldsSection(e) ==
    LET content ==
            GetFileContent(files, EntryPath(e).s, DictGet(e, "focus", JList(<<>>)))
    IN content.some /\ content.text # EmptyText

\* the paths of the sections of a request
LabelsOf(request) == [i \in 1..Len(request) |-> request[i].path]

\* the paths of the entries that yield a section, in selection order
SectionPaths ==
    LET hits == SelectSeq(Selection, YieldsSection)
    IN [i \in 1..Len(hits) |-> EntryPath(hits[i]).s]

\* how a step may move the reads and the chat calls: a read is appended
\* alone, after the stage-1 call returned and before any other chat call,
\* in a step that makes no chat call; a chat call is made in a step that
\* reads nothing
OneAtATime ==
    /\ (reads' # reads /\ reads' # <<>>) =>
          /\ reads' = Append(reads, reads'[Len(reads')])
          /\ chat_log' = chat_log
          /\ Len(chat_log) = 1 /\ chat_log[1].stage = 1 /\ chat_log[1].returned
    /\ (chat_log' # chat_log /\ chat_log' # <<>>) => reads' = reads

\* where a query stands: the files read are those of the entries the loop
\* has passed, in selection order; a stage-2 call was made only with the
\* loop over every entry; the sections sent are those of the entries that
\* yield one, in selection order, each under its path
InSelectionOrder ==
    /\ reads # <<>> => Stage1Returned
    /\ (Parsed /\ relevant_files.t = "list") => reads = ReadPaths(idx - 1)
    /\ ChatCalls(2) > 0 =>
          /\ relevant_files.t = "list" /\ idx = Len(relevant_files.v) + 1
          /\ chat_log[2].stage = 2
          /\ LabelsOf(stage2_request) = SectionPaths
          /\ stage2_request = context_parts

\* C24: within one query the steps are strictly ordered and never
\* overlap: the stage-1 chat call has returned before any selected file
\* is read; the files are read one at a time, in the order of the
\* reasoner's selection; the stage-2 chat call is made only after the
\* last read; and the sections of the stage-2 request are in selection
\* order, each labelled with its path.
C24_StepsStrictlyOrdered == []InSelectionOrder /\ [][OneAtATime]_vars

\* a finished query that read at least three files in the order selected,
\* passed over one that is missing, got no text from another, and sent
\* its two sections in that order
C24_Witness ==
    /\ pc = "done" /\ Len(chat_log) = 2
    /\ Len(reads) >= 3 /\ reads[1] # reads[2]
    /\ Len(stage2_request) = 2
    /\ stage2_request[1].path # stage2_request[2].path
    /\ Len(Selection) > Len(reads)

----------------------------------------------------------------------------
(* Properties of the recovery from a malformed selection *)

\* C25: whatever text the stage-1 chat call returned (a JSON object whose
\* relevant_files is null or not a list, or whose list entries are not
\* objects with a path, included), the query ends by returning a string,
\* the fallback or the stage-2 answer; it does not raise (unless the
\* stage-2 chat call itself fails).
C25_QueryRecoversFromAnyResponse ==
    (pc = "done" /\ Stage1Returned /\ \A k \in 1..Len(chat_log) : chat_log[k].returned)
        => outcome.kind = "returned"

----------------------------------------------------------------------------
(* Properties of the persisted document *)

\* the answers that need nothing but the index
IndexAnswers(index) ==
    [find |-> [symbol \in Symbols |-> _find_references(index, symbol)],
     tree |-> [max_depth \in 0..DefaultMaxDepth |-> get_compact_tree(index, max_depth)],
     stats |-> <<index.repo_path, index.total_files, index.total_lines,
                 index.languages, index.created_at>>]

\* a facade created now on the document at the index path holds, on first
\* use and without a build, an index equal to the given one and gives the
\* same answers
FreshFacadeAgrees(file, index) ==
    LET fresh == index_property(Nothing, file) IN
    /\ fresh.error = ""
    /\ fresh._index = Just(index)
    /\ IndexAnswers(fresh._index[1]) = IndexAnswers(index)

\* a successful build_index: the only step that advances the clock
BuildSucceeds == last'.op = "build_index" /\ clock' = clock + 1

\* C26: of the operations of a facade only build_index(save=True) writes
\* the document at the index path, and right after such a call the
\* document decodes to an index equal to the one in memory, so that a
\* fresh facade on the same repository answers tree, find and stats as
\* this one does, without building; build_index(save=False), a failed
\* build_index, query, find, tree and stats leave the document as it was.
C26_OnlySavingBuildWrites ==
    [][ /\ index_file' # index_file =>
              ~(TreeQuery \/ TreeFind \/ TreeTree \/ TreeStats)
        /\ (BuildIndexStep /\ ~BuildSucceeds) => UNCHANGED index_file
        /\ (BuildSucceeds /\ ~last'.save) => UNCHANGED index_file
        /\ (BuildSucceeds /\ last'.save) =>
              /\ index_file' # Nothing
              /\ index_file'[1].origin = "encode"
              /\ FreshFacadeAgrees(index_file', _index'[1])
      ]_vars

\* a second build, saving, left the document of the index it built
C26_Witness ==
    /\ last.op = "build_index" /\ last.save /\ last.error = ""
    /\ clock = 2
    /\ index_file # Nothing
    /\ from_dict(index_file[1].data).index = _index
    /\ _index[1].created_at = 2

----------------------------------------------------------------------------
(* Properties of the order of the extracted functions *)

\* the functions a source text holds, by the lines they start at (the
\* Java pattern also matches the headers of control statements, which are
\* not reported)
SourceFunctions(file) ==
    {f \in {file.matches.funcs[k] : k \in 1..Len(file.matches.funcs)} :
        f.name \notin JavaKeywords}

\* the functions of a file node are in the order of their lines
InSourceOrder(node) ==
    \A i, j \in 1..Len(node.functions) :
        i < j => node.functions[i].line <= node.functions[j].line

\* no function of the source text that the node lacks starts before one
\* the node has
EarliestKept(node, file) ==
    \A f \in SourceFunctions(file) :
        (\A k \in 1..Len(node.functions) : node.functions[k].name # f.name)
            => \A k \in 1..Len(node.functions) : node.functions[k].line <= f.line

\* C27: for every supported language the functions reported for a file
\* are in source order (their start lines never decrease), so the
\* functions kept by the 50-item truncation, and the names shown under
\* the 5-item cap of the rendering, are the earliest ones of the file.
C27_FunctionsInSourceOrder ==
    built # Nothing =>
        \A node \in FileNodesOf(built[1].root) :
            /\ InSourceOrder(node)
            /\ \A r \in ReachedFiles(repo[1], <<>>, config) :
                  r.path = node.path => EarliestKept(node, r.file)

----------------------------------------------------------------------------
(* Properties of the limits of a build *)

\* C28: a build applies the configured file-count limit: the total_files
\* of every built index is at most config.index.max_files (10,000 unless
\* configured), however many qualifying files the repository holds.
C28_FileCountLimitApplied ==
    built # Nothing => built[1].total_files <= config.max_files

----------------------------------------------------------------------------
(* Properties of the cached index and retriever *)

\* the first use of the index by a facade that holds none: the document
\* at the index path is loaded
FirstLoad ==
    /\ _index = Nothing
    /\ index_file # Nothing
    /\ from_dict(index_file[1].data).error = ""
    /\ _index' = from_dict(index_file[1].data).index

\* C29: on one facade the index in memory changes only through
\* build_index, or once through the first load of the document at the
\* index path (changes made to the document afterwards are not seen);
\* and a cached retriever always holds the index in memory, so a query
\* after a rebuild is served from the rebuilt index, never from a stale
\* one.
C29_CachedIndexAndRetrieverCurrent ==
    [][ /\ (_index' # _index /\ last' # NoCall) => (BuildSucceeds \/ FirstLoad)
        /\ _retriever' # Nothing => _retriever' = _index'
      ]_vars

\* a query answered by the retriever of a rebuilt index, while the
\* document at the index path still holds another index
C29_Witness ==
    /\ last.op = "query" /\ last.error = "" /\ last.constructed
    /\ _retriever # Nothing /\ _retriever = _index
    /\ _index[1].created_at = 2
    /\ index_file # Nothing
    /\ from_dict(index_file[1].data).index # _index

----------------------------------------------------------------------------
(* Properties of the files a query embeds *)

\* the path of a file node that a path named by the reasoner denotes: the
\* names of its components
ComponentsOf(path) ==
    CASE path = "a.py" -> <<<<"a", ".", "p", "y">>>>
      [] path = ".env.py" -> <<<<".", "e", "n", "v", ".", "p", "y">>>>
      [] path = "../s.py" -> <<<<".", ".">>, <<"s", ".", "p", "y">>>>
      [] path = "/etc/passwd" -> <<<<>>, <<"e", "t", "c">>, <<"p", "a", "s", "s", "w", "d">>>>
      [] OTHER -> <<>>

\* the path stays under the root it is joined to: it does not start at
\* the file system root and has no ".." component
InsideRoot(path) ==
    /\ ComponentsOf(path) # <<>>
    /\ ComponentsOf(path)[1] # <<>>
    /\ \A k \in 1..Len(ComponentsOf(path)) : ComponentsOf(path)[k] # <<".", ".">>

\* C30: every file whose text is embedded in the stage-2 request lies
\* inside the repository root and has a file node in the index the
\* retriever serves: a selected path that is absolute, that leaves the
\* root through "..", or that names an excluded, hidden or otherwise
\* unindexed file adds nothing to the context.
C30_ContextOnlyFromIndexedFiles ==
    (last.op = "query" /\ _retriever # Nothing) =>
        \A k \in 1..Len(last.sent) :
            /\ InsideRoot(last.sent[k])
            /\ \E node \in FileNodesOf(_retriever[1].root) :
                  node.path = ComponentsOf(last.sent[k])

====
